---------------------------- MODULE Spec2Model ----------------------------
(***************************************************************************)
(* RageSoundReader_WAV (src/stepmania/src/RageSoundReader_WAV.cpp): the    *)
(* WAV / MS-ADPCM stream reader, modelled at byte level.                   *)
(*                                                                         *)
(* A file is a sequence of bytes; Open parses those bytes the way          *)
(* WAV_open_internal does, Read / SetPosition / GetLength act on the       *)
(* stdio cursor and the ADPCM channel state the way the code does.         *)
(*                                                                         *)
(* Conventions                                                             *)
(*   - the host is little-endian (SDL_BYTEORDER == SDL_LIL_ENDIAN);        *)
(*   - stdio: fseek returns 0 on success and -1 on failure, seeking past   *)
(*     the end of a file succeeds, fread returns the number of complete    *)
(*     items and advances the cursor over every byte it consumed;          *)
(*   - 32-bit quantities are kept as two's-complement signed values;       *)
(*   - ASSERT is StepMania's always-on assertion: a failed ASSERT aborts   *)
(*     the process (fault "abort");                                        *)
(*   - fault "ub" marks an execution that ran into undefined behaviour     *)
(*     the model does not follow any further (crash), "hang" a call that   *)
(*     never returns.                                                      *)
(***************************************************************************)
EXTENDS Integers, Sequences, FiniteSets, TLC

(***************************************************************************)
(* Bounds of the model.                                                    *)
(***************************************************************************)
\* SetPosition is called with ms in 0..MaxMs
MaxMs == 9
\* Read is called with len = k * Input_Buffer_Ratio * 2 for k in 1..MaxReadUnits
MaxReadUnits == 2
\* calls the program makes on its readers in one run
MaxCalls == 4
\* calls of the caller that tries file after file
MaxOpenCalls == 3
\* the position conversions are applied to ms in 0..MaxConvMs
MaxConvMs == 40

\* the nibbles decoded in a row from one block header
MaxNibbles == 2
\* the tracks, the note rows and the hold notes of a chart (Player)
NumTracks == 2
MaxRows == 3
MaxHoldNotes == 2
\* the steps a hold note's life is counted in: LifeFull steps are a life of 1
LifeFull == 3

(***************************************************************************)
(* Program constants.                                                      *)
(***************************************************************************)
riffID == 1179011410
waveID == 1163280727
fmtID == 544501094
dataID == 1635017060
FMT_NORMAL == 1
FMT_ADPCM == 2
FIXED_POINT_COEF_BASE == 256
FIXED_POINT_ADAPTION_BASE == 256
SMALLEST_ADPCM_DELTA == 16
max_audioval == 32767
min_audioval == -32768
AdaptionTable == << 230, 230, 230, 230, 307, 409, 512, 614,
                    768, 614, 512, 409, 307, 230, 230, 230 >>

CONV_NONE == "CONV_NONE"
CONV_8BIT_TO_16BIT == "CONV_8BIT_TO_16BIT"
CONV_16LSB_TO_16SYS == "CONV_16LSB_TO_16SYS"

OPEN_OK == "OPEN_OK"
OPEN_NO_MATCH == "OPEN_NO_MATCH"
OPEN_MATCH_BUT_FAIL == "OPEN_MATCH_BUT_FAIL"

(***************************************************************************)
(* Integer helpers of the C arithmetic.                                    *)
(***************************************************************************)
Abs(x) == IF x < 0 THEN -x ELSE x
Min(a, b) == IF a < b THEN a ELSE b
Max(a, b) == IF a > b THEN a ELSE b
\* C integer division truncates toward zero
CDiv(a, b) == IF (a >= 0) = (b > 0) THEN Abs(a) \div Abs(b) ELSE -(Abs(a) \div Abs(b))
\* C remainder has the sign of the dividend
CMod(a, b) == a - b * CDiv(a, b)
\* conversion to Sint16 / Uint16 / Uint8 keeps the low bits
ToU16(x) == x % 65536
ToS16(x) == IF x % 65536 >= 32768 THEN (x % 65536) - 65536 ELSE x % 65536
ToU8(x) == x % 256
clamp(x, lo, hi) == IF x < lo THEN lo ELSE IF x > hi THEN hi ELSE x

(***************************************************************************)
(* Little-endian encoding, used to lay out the files.                      *)
(***************************************************************************)
LE16(v) == << ToU16(v) % 256, ToU16(v) \div 256 >>
LE32(v) == << v % 256, (v \div 256) % 256, (v \div 65536) % 256, (v \div 16777216) % 256 >>

RECURSIVE Flatten(_)
Flatten(ss) == IF ss = << >> THEN << >> ELSE Head(ss) \o Flatten(Tail(ss))


(***************************************************************************)
(* The files on disk.  Each is laid out byte by byte in the RIFF / WAVE     *)
(* container layout; Open below parses these bytes.                        *)
(***************************************************************************)
RiffHeader(magic1, magic2) == LE32(magic1) \o LE32(0) \o LE32(magic2)

FmtChunk(tag, channels, rate, align, bits) ==
    LE32(fmtID) \o LE32(16) \o LE16(tag) \o LE16(channels) \o LE32(rate)
        \o LE32(rate * align) \o LE16(align) \o LE16(bits)

\* the two first coefficient pairs of the standard MS-ADPCM table
StdCoefs == << <<256, 0>>, <<512, -256>> >>

FmtChunkADPCM(channels, rate, align, bits, spb, coefs) ==
    LE32(fmtID) \o LE32(22 + 4 * Len(coefs)) \o LE16(FMT_ADPCM) \o LE16(channels)
        \o LE32(rate) \o LE32(rate) \o LE16(align) \o LE16(bits)
        \o LE16(4 + 4 * Len(coefs)) \o LE16(spb) \o LE16(Len(coefs))
        \o Flatten([ i \in 1..Len(coefs) |-> LE16(coefs[i][1]) \o LE16(coefs[i][2]) ])

DataChunk(bytes) == LE32(dataID) \o LE32(Len(bytes)) \o bytes

\* one mono ADPCM block: predictor, delta, newest seed, previous seed, nibbles
MonoBlock(pred, delta, samp0, samp1, nibbles) ==
    << pred >> \o LE16(delta) \o LE16(samp0) \o LE16(samp1) \o nibbles

\* one stereo ADPCM block: the fields of both channels index-wise
StereoBlock(p, d, s0, s1, nibbles) ==
    << p[1], p[2] >> \o LE16(d[1]) \o LE16(d[2]) \o LE16(s0[1]) \o LE16(s0[2])
        \o LE16(s1[1]) \o LE16(s1[2]) \o nibbles

Block1 == MonoBlock(1, 16, 10, 5, << 31 >>)
Block2 == MonoBlock(0, 32, -3, 7, << 114 >>)

FileNames == { "pcm8m.wav", "pcm16s.wav", "adpcm.wav", "adpcm_trunc.wav",
               "adpcm_s.wav", "rifx.wav", "wavx.wav", "short.wav", "mp3.wav",
               "pcm24.wav", "pcm24c3.wav", "pcm16c3.wav", "pcm16c0.wav",
               "adpcm8.wav", "adpcm16.wav", "pcm4.wav", "nofmt.wav", "mp3c3.wav",
               "pcm8s.wav", "pcm16m.wav", "pcm8m_tail.wav", "pcm8m_odd.wav",
               "pcm8m_big.wav", "pcm8m_neg.wav", "pcm8m_skipbig.wav", "pcm8m_cut.wav",
               "pcm16m_late.wav", "adpcm_spb0.wav", "adpcm_spb1.wav" }

FileLayout(name) ==
    CASE name = "pcm8m.wav" ->
            RiffHeader(riffID, waveID) \o FmtChunk(FMT_NORMAL, 1, 1000, 1, 8)
                \o DataChunk(<< 128, 144, 16, 255 >>)
      [] name = "pcm16s.wav" ->
            RiffHeader(riffID, waveID) \o FmtChunk(FMT_NORMAL, 2, 1000, 4, 16)
                \o DataChunk(<< 1, 0, 255, 255, 0, 128, 255, 127 >>)
      [] name = "adpcm.wav" ->
            RiffHeader(riffID, waveID) \o FmtChunkADPCM(1, 1000, 8, 4, 4, StdCoefs)
                \o DataChunk(Block1 \o Block2)
      [] name = "adpcm_trunc.wav" ->
            \* the block stops after its header: no nibble byte follows
            RiffHeader(riffID, waveID) \o FmtChunkADPCM(1, 1000, 8, 4, 4, StdCoefs)
                \o DataChunk(SubSeq(Block1, 1, 7))
      [] name = "adpcm_s.wav" ->
            RiffHeader(riffID, waveID) \o FmtChunkADPCM(2, 1000, 16, 4, 4, StdCoefs)
                \o DataChunk(StereoBlock(<<0, 1>>, <<16, 16>>, <<2, -2>>, <<1, -1>>,
                                         << 18, 240 >>))
      [] name = "rifx.wav" ->
            RiffHeader(riffID + 1, waveID) \o FmtChunk(FMT_NORMAL, 1, 1000, 2, 24)
                \o DataChunk(<< 1, 2 >>)
      [] name = "wavx.wav" ->
            RiffHeader(riffID, waveID + 1) \o FmtChunk(FMT_NORMAL, 3, 1000, 2, 16)
                \o DataChunk(<< 1, 2 >>)
      [] name = "short.wav" -> << 82, 73, 70 >>
      [] name = "mp3.wav" ->
            RiffHeader(riffID, waveID) \o FmtChunk(85, 2, 1000, 1, 0)
                \o DataChunk(<< 1, 2 >>)
      [] name = "pcm24.wav" ->
            RiffHeader(riffID, waveID) \o FmtChunk(FMT_NORMAL, 2, 1000, 6, 24)
                \o DataChunk(<< 1, 2, 3, 4, 5, 6 >>)
      [] name = "pcm24c3.wav" ->
            RiffHeader(riffID, waveID) \o FmtChunk(FMT_NORMAL, 3, 1000, 9, 24)
                \o DataChunk(<< 1, 2, 3, 4, 5, 6, 7, 8, 9 >>)
      [] name = "pcm16c3.wav" ->
            RiffHeader(riffID, waveID) \o FmtChunk(FMT_NORMAL, 3, 1000, 6, 16)
                \o DataChunk(<< 1, 2, 3, 4, 5, 6 >>)
      [] name = "pcm16c0.wav" ->
            RiffHeader(riffID, waveID) \o FmtChunk(FMT_NORMAL, 0, 1000, 2, 16)
                \o DataChunk(<< 1, 2, 3, 4 >>)
      [] name = "adpcm8.wav" ->
            RiffHeader(riffID, waveID) \o FmtChunkADPCM(1, 1000, 8, 8, 4, StdCoefs)
                \o DataChunk(Block1)
      [] name = "adpcm16.wav" ->
            RiffHeader(riffID, waveID) \o FmtChunkADPCM(2, 1000, 16, 16, 4, StdCoefs)
                \o DataChunk(Block1 \o Block2)
      [] name = "pcm4.wav" ->
            RiffHeader(riffID, waveID) \o FmtChunk(FMT_NORMAL, 1, 1000, 1, 4)
                \o DataChunk(<< 1, 2 >>)
      [] name = "nofmt.wav" ->
            RiffHeader(riffID, waveID) \o DataChunk(<< 1, 2 >>)
      [] name = "mp3c3.wav" ->
            RiffHeader(riffID, waveID) \o FmtChunk(85, 3, 1000, 1, 0)
                \o DataChunk(<< 1, 2 >>)
      [] name = "pcm8s.wav" ->
            RiffHeader(riffID, waveID) \o FmtChunk(FMT_NORMAL, 2, 1000, 2, 8)
                \o DataChunk(<< 128, 0, 255, 127 >>)
      [] name = "pcm16m.wav" ->
            \* the last sample is cut short: 3 bytes of data
            RiffHeader(riffID, waveID) \o FmtChunk(FMT_NORMAL, 1, 1000, 2, 16)
                \o DataChunk(<< 1, 0, 255 >>)
      [] name = "pcm8m_tail.wav" ->
            \* a chunk of another kind follows the data chunk
            RiffHeader(riffID, waveID) \o FmtChunk(FMT_NORMAL, 1, 1000, 1, 8)
                \o DataChunk(<< 128, 144, 16, 255 >>) \o LE32(fmtID + 1) \o LE32(2) \o << 7, 9 >>
      [] name = "pcm8m_odd.wav" ->
            \* a chunk of 1 byte and its pad byte come before the data chunk
            RiffHeader(riffID, waveID) \o FmtChunk(FMT_NORMAL, 1, 1000, 1, 8)
                \o LE32(fmtID + 1) \o LE32(1) \o << 7, 0 >>
                \o DataChunk(<< 128, 144, 16, 255 >>)
      [] name = "pcm8m_big.wav" ->
            \* the data chunk declares 100 bytes, 4 are there
            RiffHeader(riffID, waveID) \o FmtChunk(FMT_NORMAL, 1, 1000, 1, 8)
                \o LE32(dataID) \o LE32(100) \o << 128, 144, 16, 255 >>
      [] name = "pcm8m_neg.wav" ->
            \* the data chunk declares a negative size
            RiffHeader(riffID, waveID) \o FmtChunk(FMT_NORMAL, 1, 1000, 1, 8)
                \o LE32(dataID) \o << 252, 255, 255, 255 >> \o << 128, 144, 16, 255 >>
      [] name = "pcm8m_skipbig.wav" ->
            \* a chunk before the data chunk declares 100 bytes, 2 are there
            RiffHeader(riffID, waveID) \o FmtChunk(FMT_NORMAL, 1, 1000, 1, 8)
                \o LE32(fmtID + 1) \o LE32(100) \o << 7, 9 >>
      [] name = "pcm8m_cut.wav" ->
            \* the file ends inside the header of the data chunk
            RiffHeader(riffID, waveID) \o FmtChunk(FMT_NORMAL, 1, 1000, 1, 8)
                \o LE32(dataID) \o << 4, 0 >>
      [] name = "pcm16m_late.wav" ->
            \* a chunk of 260 bytes comes before the data chunk
            RiffHeader(riffID, waveID) \o FmtChunk(FMT_NORMAL, 1, 1000, 2, 16)
                \o LE32(fmtID + 1) \o LE32(260) \o [ k \in 1..260 |-> 7 ]
                \o DataChunk(<< 1, 0, 255, 255 >>)
      [] name = "adpcm_spb0.wav" ->
            \* the fmt chunk declares 0 samples per block
            RiffHeader(riffID, waveID) \o FmtChunkADPCM(1, 1000, 8, 4, 0, StdCoefs)
                \o DataChunk(Block1 \o Block2)
      [] name = "adpcm_spb1.wav" ->
            \* 1 sample per block: a block is its header
            RiffHeader(riffID, waveID) \o FmtChunkADPCM(1, 1000, 7, 4, 1, StdCoefs)
                \o DataChunk(SubSeq(Block1, 1, 7) \o SubSeq(Block2, 1, 7))

FileTable == [ name \in FileNames |-> FileLayout(name) ]
FileBytes(name) == FileTable[name]

(***************************************************************************)
(* stdio.  A FILE is the file's bytes and a cursor (0-based).              *)
(***************************************************************************)
FileLen(name) == Len(FileBytes(name))

\* fread(buf, 1, n, rw) delivers the n bytes that follow offset pos, or as
\* many as there are
Take(bytes, pos, n) ==
    SubSeq(bytes, pos + 1, pos + Min(n, IF pos >= Len(bytes) THEN 0 ELSE Len(bytes) - pos))

FreadBytes(name, pos, n) == Take(FileBytes(name), pos, n)

RECURSIVE LEValue(_)
LEValue(bytes) == IF bytes = << >> THEN 0 ELSE Head(bytes) + 256 * LEValue(Tail(bytes))

\* a short fread leaves the bytes it got in the low-order bytes of the item
Pow256(k) == IF k = 0 THEN 1 ELSE IF k = 1 THEN 256 ELSE IF k = 2 THEN 65536 ELSE 16777216
PartialLE(old, got) ==
    IF got = << >> THEN old
    ELSE (old \div Pow256(Len(got))) * Pow256(Len(got)) + LEValue(got)


\* a complete little-endian 32-bit item, as a two's-complement signed value
LEValue32(bytes) ==
    LEValue(SubSeq(bytes, 1, 3))
        + 16777216 * (IF bytes[4] >= 128 THEN bytes[4] - 256 ELSE bytes[4])

(***************************************************************************)
(* The reader object.  NULL pointers are the flags rw / aCoefHeld /        *)
(* blockheadersHeld being FALSE.  Members the constructor leaves           *)
(* uninitialised are written by Open before anything reads them; they      *)
(* start at 0 here.                                                        *)
(***************************************************************************)
ZeroFmt == [ wFormatTag |-> 0, wChannels |-> 0, dwAvgBytesPerSec |-> 0,
             wBlockAlign |-> 0, wBitsPerSample |-> 0,
             data_starting_offset |-> 0, adpcm_sample_frame_size |-> 0 ]

ZeroHeader == [ bPredictor |-> 0, iDelta |-> 0, iSamp |-> << 0, 0 >> ]

\* memset(&adpcm, 0, sizeof adpcm)
ZeroAdpcm == [ cbSize |-> 0, wSamplesPerBlock |-> 0, wNumCoef |-> 0,
               aCoefHeld |-> FALSE, aCoef |-> << >>,
               blockheadersHeld |-> FALSE, blockheaders |-> << >>,
               samples_left_in_block |-> 0, nibble_state |-> 0, nibble |-> 0 ]

\* RageSoundReader_WAV::RageSoundReader_WAV()
NewReader == [ opened |-> FALSE, rw |-> FALSE, filename |-> "", pos |-> 0,
               error |-> "", fmt |-> ZeroFmt, SampleRate |-> 0, Channels |-> 0,
               BytesPerSample |-> 0, Conversion |-> CONV_NONE,
               Input_Buffer_Ratio |-> 0, adpcm |-> ZeroAdpcm ]

SetError(s, e) == [ s EXCEPT !.error = e ]

\* fseek(rw, off, SEEK_SET): a negative offset fails and leaves the cursor
Fseek(s, off) ==
    IF off < 0 THEN [ rc |-> -1, s |-> s ] ELSE [ rc |-> 0, s |-> [ s EXCEPT !.pos = off ] ]

(***************************************************************************)
(* read_le16 / read_le32 / read_uint8: one fread of one item.  ok is the   *)
(* return value, got the bytes fread stored.                               *)
(***************************************************************************)
ReadItemGot(s, width, got) ==
    [ ok |-> Len(got) = width, got |-> got,
      s |-> IF Len(got) = width THEN [ s EXCEPT !.pos = @ + width ]
            ELSE [ s EXCEPT !.pos = @ + Len(got), !.error = "end of file" ] ]

ReadItem(s, width) == ReadItemGot(s, width, FreadBytes(s.filename, s.pos, width))

read_uint8(s) == ReadItem(s, 1)
read_le16(s) == ReadItem(s, 2)
read_le32(s) == ReadItem(s, 4)

\* the value a variable holds after the read r was asked to fill it
Got8(r, old) == IF r.ok THEN r.got[1] ELSE old
GotU16(r, old) == IF r.ok THEN LEValue(r.got) ELSE PartialLE(old, r.got)
GotS16(r, old) == ToS16(GotU16(r, ToU16(old)))
Got32(r, old) == IF r.ok THEN LEValue32(r.got) ELSE PartialLE(old, r.got)

\* a run of reads that stops at the first failure: the results of the reads
\* that were made (the last one is the failed one, if any failed)
RECURSIVE ReadRun(_, _), ReadRunNext(_, _)
ReadRun(s, widths) ==
    IF widths = << >> THEN << >> ELSE ReadRunNext(ReadItem(s, Head(widths)), widths)

\* the run after its first read r
ReadRunNext(r, widths) ==
    IF r.ok THEN << r >> \o ReadRun(r.s, Tail(widths)) ELSE << r >>

RunOk(run, widths) == Len(run) = Len(widths) /\ (run = << >> \/ run[Len(run)].ok)
RunEnd(s, run) == IF run = << >> THEN s ELSE run[Len(run)].s
RunU16(run, i, old) == IF i <= Len(run) THEN GotU16(run[i], old) ELSE old
RunS16(run, i, old) == IF i <= Len(run) THEN GotS16(run[i], old) ELSE old
Run8(run, i, old) == IF i <= Len(run) THEN Got8(run[i], old) ELSE old
Run32(run, i, old) == IF i <= Len(run) THEN Got32(run[i], old) ELSE old

(***************************************************************************)
(* read_fmt_chunk                                                          *)
(***************************************************************************)
CoefWidths(n) == [ i \in 1..(2 * n) |-> 2 ]

FmtWidths == << 2, 2, 4, 4, 2, 2 >>
FmtAdpcmWidths == << 2, 2, 2 >>

\* lines 143-148: the members the reads r1 have stored
FmtFields(s, r1) ==
    [ RunEnd(s, r1) EXCEPT
        !.fmt.wFormatTag = RunU16(r1, 1, @),
        !.fmt.wChannels = RunU16(r1, 2, @),
        !.SampleRate = Run32(r1, 3, @),
        !.fmt.dwAvgBytesPerSec = Run32(r1, 4, @),
        !.fmt.wBlockAlign = RunU16(r1, 5, @),
        !.fmt.wBitsPerSample = RunU16(r1, 6, @) ]

\* lines 154-156
FmtAdpcmFields(s, r2) ==
    [ RunEnd(s, r2) EXCEPT
        !.adpcm.cbSize = RunU16(r2, 1, @),
        !.adpcm.wSamplesPerBlock = RunU16(r2, 2, @),
        !.adpcm.wNumCoef = RunU16(r2, 3, @) ]

\* lines 158-166: the coefficient table, filled by the reads r3, and the
\* block headers array
FmtCoefs(s2, r3) ==
    [ ok |-> RunOk(r3, CoefWidths(s2.adpcm.wNumCoef)),
      s |-> [ RunEnd(s2, r3) EXCEPT
                !.adpcm.aCoefHeld = TRUE,
                !.adpcm.aCoef = [ i \in 1..s2.adpcm.wNumCoef |->
                                    [ iCoef1 |-> RunS16(r3, 2 * i - 1, 0),
                                      iCoef2 |-> RunS16(r3, 2 * i, 0) ] ],
                !.adpcm.blockheadersHeld = RunOk(r3, CoefWidths(s2.adpcm.wNumCoef)),
                !.adpcm.blockheaders =
                    IF RunOk(r3, CoefWidths(s2.adpcm.wNumCoef))
                      THEN [ i \in 1..s2.fmt.wChannels |-> ZeroHeader ]
                      ELSE << >> ] ]

FmtAdpcmTable(s2, ok) ==
    IF ~ok THEN [ ok |-> FALSE, s |-> s2 ]
    ELSE FmtCoefs(s2, ReadRun(s2, CoefWidths(s2.adpcm.wNumCoef)))

\* lines 152-166: s0 is the reader after the memset
FmtAdpcmRun(s0, r2) == FmtAdpcmTable(FmtAdpcmFields(s0, r2), RunOk(r2, FmtAdpcmWidths))

FmtAdpcm(s0) == FmtAdpcmRun(s0, ReadRun(s0, FmtAdpcmWidths))

FmtTag(s1, ok) ==
    IF ~ok THEN [ ok |-> FALSE, s |-> s1 ]
    ELSE IF s1.fmt.wFormatTag # FMT_ADPCM THEN [ ok |-> TRUE, s |-> s1 ]
    ELSE FmtAdpcm([ s1 EXCEPT !.adpcm = ZeroAdpcm ])

FmtRun(s, r1) == FmtTag(FmtFields(s, r1), RunOk(r1, FmtWidths))

read_fmt_chunk(s) == FmtRun(s, ReadRun(s, FmtWidths))

(***************************************************************************)
(* find_chunk: scan forward from the cursor for the chunk called id.       *)
(***************************************************************************)
RECURSIVE find_chunk_from(_, _, _), FindChunkId(_, _, _), FindChunkSize(_, _, _, _)
find_chunk_from(s, id, pos) == FindChunkId(read_le32(s), id, pos)

\* line 421: the chunk id was read by r1
FindChunkId(r1, id, pos) ==
    IF ~r1.ok THEN [ ok |-> FALSE, size |-> 0, s |-> r1.s ]
    ELSE FindChunkSize(Got32(r1, 0), read_le32(r1.s), id, pos)

\* lines 422-437: the chunk size was read by r2
FindChunkSize(got, r2, id, pos) ==
    IF ~r2.ok THEN [ ok |-> FALSE, size |-> Got32(r2, 0), s |-> r2.s ]
    ELSE IF got = id THEN [ ok |-> TRUE, size |-> Got32(r2, 0), s |-> r2.s ]
    ELSE IF Got32(r2, 0) < 0 THEN [ ok |-> FALSE, size |-> Got32(r2, 0), s |-> r2.s ]
    \* pos + 8 + size at or above 2^31: fseek fails (32-bit long) or the
    \* next header read is far past the end of the file (64-bit long)
    ELSE IF Got32(r2, 0) > 2147483647 - 8 - pos
           THEN [ ok |-> FALSE, size |-> Got32(r2, 0), s |-> SetError(r2.s, "end of file") ]
    ELSE find_chunk_from(Fseek(r2.s, pos + 8 + Got32(r2, 0)).s, id, pos + 8 + Got32(r2, 0))

find_chunk(s, id) == find_chunk_from(s, id, s.pos)


(***************************************************************************)
(* WAV_open_internal, Close, Open.  A result is the reader after the call, *)
(* the value returned and the fault the call ended in ("none" when it      *)
(* returned).                                                              *)
(***************************************************************************)
OpenBits(s) ==
    IF s.fmt.wBitsPerSample = 4 /\ s.fmt.wFormatTag = FMT_ADPCM
      THEN [ ok |-> TRUE, s |-> [ s EXCEPT !.Conversion = CONV_NONE, !.BytesPerSample = 2 ] ]
    ELSE IF s.fmt.wBitsPerSample = 8
      THEN [ ok |-> TRUE,
             s |-> [ s EXCEPT !.Conversion = CONV_8BIT_TO_16BIT, !.BytesPerSample = 1 ] ]
    ELSE IF s.fmt.wBitsPerSample = 16
      THEN [ ok |-> TRUE,
             s |-> [ s EXCEPT !.Conversion = CONV_16LSB_TO_16SYS, !.BytesPerSample = 2 ] ]
    ELSE [ ok |-> FALSE, s |-> SetError(s, "Unsupported sample size") ]

\* a ratio that is doubled for the channels whatever their number
OpenRatioDoubled(s) ==
    [ s EXCEPT !.Input_Buffer_Ratio =
        @ * (IF s.Conversion = CONV_8BIT_TO_16BIT THEN 2 ELSE 1) * 2 ]

\* lines 502-505
OpenRatio(s) ==
    [ s EXCEPT !.Input_Buffer_Ratio =
        @ * (IF s.Conversion = CONV_8BIT_TO_16BIT THEN 2 ELSE 1)
          * (IF s.Channels = 1 THEN 2 ELSE 1) ]

\* a decoder that fails hard on a compression tag it does not know
OpenTagHard(s) ==
    IF s.fmt.wFormatTag # FMT_NORMAL /\ s.fmt.wFormatTag # FMT_ADPCM
      THEN OPEN_MATCH_BUT_FAIL
      ELSE OPEN_OK

\* lines 470-479: the compression tag
OpenTagResult(s) ==
    IF s.fmt.wFormatTag # FMT_NORMAL /\ s.fmt.wFormatTag # FMT_ADPCM
      THEN OPEN_NO_MATCH
      ELSE OPEN_OK

\* lines 510-515: fd is the search for the data chunk
OpenDataFound(fd) ==
    IF ~fd.ok
      THEN [ rc |-> OPEN_MATCH_BUT_FAIL, s |-> SetError(fd.s, "No data chunk."),
             fault |-> "none" ]
      ELSE [ rc |-> OPEN_OK,
             s |-> [ fd.s EXCEPT
                       !.fmt.data_starting_offset = fd.s.pos,
                       !.fmt.adpcm_sample_frame_size = fd.s.BytesPerSample * fd.s.Channels ],
             fault |-> "none" ]

OpenData(s, NextChunk) == OpenDataFound(find_chunk(Fseek(s, NextChunk).s, dataID))

\* lines 461-515: from the fmt chunk on
\* lines 481-507: sb is the sample format
OpenSample(sb, NextChunk) ==
    IF ~sb.ok THEN [ rc |-> OPEN_MATCH_BUT_FAIL, s |-> sb.s, fault |-> "none" ]
    ELSE OpenData(OpenRatio(sb.s), NextChunk)

\* lines 466-479: the channel count and the compression tag
OpenChannels(sc, NextChunk) ==
    IF ~(sc.Channels <= 2)
      THEN [ rc |-> "aborted", s |-> sc, fault |-> "abort" ]
    ELSE IF OpenTagResult(sc) # OPEN_OK
      THEN [ rc |-> OpenTagResult(sc), s |-> SetError(sc, "Unsupported WAV format"),
             fault |-> "none" ]
    ELSE OpenSample(OpenBits(sc), NextChunk)

\* line 464
OpenFmtRead(rf, NextChunk) ==
    IF ~rf.ok
      THEN [ rc |-> OPEN_MATCH_BUT_FAIL,
             s |-> SetError(rf.s, "Can't read format chunk."), fault |-> "none" ]
    ELSE OpenChannels([ rf.s EXCEPT !.Channels = ToU8(rf.s.fmt.wChannels) ], NextChunk)

\* lines 462-463
OpenFmtFound(ff) ==
    IF ~ff.ok
      THEN [ rc |-> OPEN_MATCH_BUT_FAIL, s |-> SetError(ff.s, "No format chunk."),
             fault |-> "none" ]
    ELSE OpenFmtRead(read_fmt_chunk(ff.s), ff.size + ff.s.pos)

\* lines 461-515: from the fmt chunk on
OpenFormat(s) == OpenFmtFound(find_chunk(s, fmtID))

\* lines 454-459: r3 is the read of the form type
OpenMagic2(r3) ==
    IF ~r3.ok \/ Got32(r3, 0) # waveID
      THEN [ rc |-> OPEN_NO_MATCH, s |-> SetError(r3.s, "Not a WAVE file."),
             fault |-> "none" ]
    ELSE OpenFormat(r3.s)

\* lines 444-452: r1 is the read of the first magic
OpenMagic1(r1) ==
    IF ~r1.ok \/ Got32(r1, 0) # riffID
      THEN [ rc |-> OPEN_NO_MATCH, s |-> SetError(r1.s, "WAV: Not a RIFF file."),
             fault |-> "none" ]
    ELSE OpenMagic2(read_le32(read_le32(r1.s).s))

WAV_open_internal(s) == OpenMagic1(read_le32(s))

\* a Close that frees the tables and forgets to close the file
CloseKeepsFile(s) ==
    [ s EXCEPT !.adpcm.aCoefHeld = FALSE, !.adpcm.aCoef = << >>,
               !.adpcm.blockheadersHeld = FALSE, !.adpcm.blockheaders = << >>,
               !.opened = FALSE ]

\* opened is not a member of the class: it records that Open returned
\* OPEN_OK and Close has not run since, which is when callers use the stream
Close(s) ==
    [ s EXCEPT !.adpcm.aCoefHeld = FALSE, !.adpcm.aCoef = << >>,
               !.adpcm.blockheadersHeld = FALSE, !.adpcm.blockheaders = << >>,
               !.rw = FALSE, !.pos = 0, !.opened = FALSE ]

\* lines 528-532
OpenFinish(r) ==
    IF r.fault # "none" THEN r
    ELSE IF r.rc # OPEN_OK THEN [ r EXCEPT !.s = Close(r.s) ]
    ELSE [ r EXCEPT !.s.opened = TRUE ]

Open(s, filename_) ==
    OpenFinish(WAV_open_internal([ Close(s) EXCEPT !.Input_Buffer_Ratio = 1,
                                                   !.filename = filename_, !.rw = TRUE,
                                                   !.pos = 0, !.fmt = ZeroFmt ]))

OpenTable == [ f \in FileNames |-> Open(NewReader, f) ]

(***************************************************************************)
(* Single-precision arithmetic of ConvertMsToBytePos / ConvertBytePosToMs. *)
(* A float is [m, e]: the value m * 2^e with 0 <= m < 2^24, rounded to     *)
(* nearest, ties to even.  The operands of the model stay small enough     *)
(* for the intermediate products to fit the checker's integers.            *)
(***************************************************************************)
RECURSIVE Pow2(_)
Pow2(k) == IF k <= 0 THEN 1 ELSE 2 * Pow2(k - 1)

RECURSIVE BitLen(_)
BitLen(n) == IF n = 0 THEN 0 ELSE 1 + BitLen(n \div 2)

\* drop low-order zero bits of the mantissa (the same value)
RECURSIVE F32Norm(_)
F32Norm(x) ==
    IF x.m = 0 THEN [ m |-> 0, e |-> 0 ]
    ELSE IF x.m % 2 = 0 THEN F32Norm([ m |-> x.m \div 2, e |-> x.e + 1 ])
    ELSE x

\* round the mantissa m, followed by a remainder r out of d, to 24 bits
F32RoundUp(m, e, r, d) ==
    LET up == (2 * r > d) \/ (2 * r = d /\ m % 2 = 1)
        m1 == IF up THEN m + 1 ELSE m
    IN  F32Norm([ m |-> m1, e |-> e ])

\* long division: extend the mantissa bit by bit until it has 24 bits
RECURSIVE F32Bits(_, _, _, _)
F32Bits(m, e, r, d) ==
    IF BitLen(m) >= 24 \/ r = 0 THEN F32RoundUp(m, e, r, d)
    ELSE F32Bits(2 * m + (IF 2 * r >= d THEN 1 ELSE 0), e - 1, (2 * r) % d, d)

\* an integer mantissa of more than 24 bits, cut to 24
RECURSIVE F32Cut(_, _, _, _)
F32Cut(m, e, r, d) ==
    IF BitLen(m) <= 24 THEN F32RoundUp(m, e, r, d)
    ELSE F32Cut(m \div 2, e + 1, (m % 2) * d + r, 2 * d)

\* the float nearest to n / d, for n >= 0 and d > 0
F32Quot(n, d) ==
    IF BitLen(n \div d) > 24 THEN F32Cut(n \div d, 0, n % d, d)
    ELSE F32Bits(n \div d, 0, n % d, d)

\* (float) n
F32OfInt(n) == F32Quot(n, 1)

\* x * y and x / y, rounded
F32Mul(x, y) ==
    LET p == F32Quot(x.m * y.m, 1) IN F32Norm([ m |-> p.m, e |-> p.e + x.e + y.e ])
F32Div(x, y) ==
    LET q == F32Quot(x.m, y.m) IN F32Norm([ m |-> q.m, e |-> q.e + x.e - y.e ])

\* (Uint32) x: the fraction is discarded; a value of 2^31 or more is kept
\* as the signed value with the same 32 bits.  A value of 2^32 or more is
\* out of the range of Uint32; the conversion then keeps the low 32 bits
\* of the integer (the 64-bit conversion of x86-64)
F32Low(x) ==
    IF x.e >= 32 THEN 0
    ELSE IF BitLen(x.m) + x.e <= 32 THEN x.m
    ELSE x.m % Pow2(32 - x.e)
F32ToInt(x) ==
    IF x.e <= -24 THEN 0
    ELSE IF x.e < 0 THEN x.m \div Pow2(-x.e)
    ELSE IF F32Low(x) = 0 THEN 0
    ELSE IF BitLen(F32Low(x)) + x.e <= 31 THEN F32Low(x) * Pow2(x.e)
    ELSE ((F32Low(x) * Pow2(x.e - 1) - 1073741824) - 1073741824) * 2

\* x / d for the Uint32 whose bits are those of the signed value x
U32Div(x, d) ==
    IF x >= 0 THEN x \div d
    ELSE IF d = 1 THEN x
    ELSE LET H == ((x \div 2) + 1073741824) + 1073741824
             L == x % 2
         IN  (H \div d) * 2 + ((H % d) * 2 + L) \div d

\* (float) of the Uint32 whose bits are those of the signed value x
F32OfU32(x) ==
    IF x >= 0 THEN F32OfInt(x)
    ELSE F32Cut(((x \div 2) + 1073741824) + 1073741824, 1, x % 2, 2)

\* 32-bit addition, wrapping
RECURSIVE Add32(_, _)
Add32(a, b) ==
    IF a >= 0 /\ b >= 0
      THEN (IF a > 2147483647 - b THEN ((a - 1073741824) - 1073741824) + ((b - 1073741824) - 1073741824)
            ELSE a + b)
    ELSE IF a < 0 /\ b < 0
      THEN (IF a < (-2147483647 - 1) - b THEN ((a + 1073741824) + 1073741824) + ((b + 1073741824) + 1073741824)
            ELSE a + b)
    ELSE a + b

FramesPerMs(s) == F32Div(F32OfInt(s.SampleRate), F32OfInt(1000))

\* a * b in Uint32 arithmetic, for b >= 0: the low 32 bits of the product
Twice32(x) == Add32(x, x)
RECURSIVE Mul32(_, _)
Mul32(a, b) ==
    IF b = 0 THEN 0
    ELSE IF b % 2 = 0 THEN Twice32(Mul32(a, b \div 2))
    ELSE Add32(a, Twice32(Mul32(a, b \div 2)))

ConvertMsToBytePos(s, BytesPerSample, channels, ms) ==
    LET frame_offset == F32ToInt(F32Mul(FramesPerMs(s), F32OfInt(ms)))
        frame_size == BytesPerSample * channels
    IN  Mul32(frame_offset, frame_size)

\* a conversion that takes the byte position for the frame number
ConvertBytePosAsFrames(s, BytesPerSample, channels, pos) ==
    F32ToInt(F32Div(F32OfU32(pos), FramesPerMs(s)))

\* the caller makes sure that frame_size and the sample rate are not 0
ConvertBytePosToMs(s, BytesPerSample, channels, pos) ==
    LET frame_size == BytesPerSample * channels
        frame_no == U32Div(pos, frame_size)
    IN  F32ToInt(F32Div(F32OfU32(frame_no), FramesPerMs(s)))

(***************************************************************************)
(* ADPCM decode engine.                                                    *)
(***************************************************************************)
HeaderWidths(ch) == [ i \in 1..(4 * ch) |-> IF i <= ch THEN 1 ELSE 2 ]

\* read_adpcm_block_headers: the block header is read into the array
\* headers, field by field for all channels; a short read stops the run
\* and leaves what was stored so far
HeadersFromRun(s, headers, run) ==
    [ ok |-> RunOk(run, HeaderWidths(s.fmt.wChannels)),
      s |-> RunEnd(s, run),
      headers |->
         [ i \in 1..Len(headers) |->
             IF i > Min(s.fmt.wChannels, Len(headers)) THEN headers[i]
             ELSE [ bPredictor |-> Run8(run, i, headers[i].bPredictor),
                    iDelta |-> RunU16(run, s.fmt.wChannels + i, headers[i].iDelta),
                    iSamp |-> << RunS16(run, 2 * s.fmt.wChannels + i, headers[i].iSamp[1]),
                                 RunS16(run, 3 * s.fmt.wChannels + i, headers[i].iSamp[2]) >> ] ] ]

ReadBlockHeaders(s, headers) ==
    HeadersFromRun(s, headers, ReadRun(s, HeaderWidths(s.fmt.wChannels)))

\* a header read that counts the first seed as delivered already
HeadersStoredLessOne(r) ==
    [ ok |-> r.ok,
      s |-> IF ~r.ok THEN [ r.s EXCEPT !.adpcm.blockheaders = r.headers ]
            ELSE [ r.s EXCEPT
                     !.adpcm.blockheaders = r.headers,
                     !.adpcm.samples_left_in_block = r.s.adpcm.wSamplesPerBlock - 1,
                     !.adpcm.nibble_state = 0 ] ]

\* read_adpcm_block_headers(adpcm): into the live channel state
\* lines 258-260 when the header was read completely
HeadersStored(r) ==
    [ ok |-> r.ok,
      s |-> IF ~r.ok THEN [ r.s EXCEPT !.adpcm.blockheaders = r.headers ]
            ELSE [ r.s EXCEPT
                     !.adpcm.blockheaders = r.headers,
                     !.adpcm.samples_left_in_block = r.s.adpcm.wSamplesPerBlock,
                     !.adpcm.nibble_state = 0 ] ]

read_adpcm_block_headers(s) == HeadersStored(ReadBlockHeaders(s, s.adpcm.blockheaders))

\* the value stored in the 16-bit iDelta field
StoreDelta(delta) == ToU16(delta)

do_adpcm_nibble(nib, header, lPredSamp) ==
    LET lNewSamp == clamp(lPredSamp + (IF nib >= 8 THEN header.iDelta * (nib - 16)
                                       ELSE header.iDelta * nib),
                          min_audioval, max_audioval)
        delta == Max(CDiv(header.iDelta * AdaptionTable[nib + 1], FIXED_POINT_ADAPTION_BASE),
                     SMALLEST_ADPCM_DELTA)
    IN  [ bPredictor |-> header.bPredictor,
          iDelta |-> StoreDelta(delta),
          iSamp |-> << ToS16(lNewSamp), header.iSamp[1] >> ]

\* a prediction whose division rounds down
lPredSampFloor(s, header) ==
    LET c == s.adpcm.aCoef[header.bPredictor + 1]
    IN  (header.iSamp[1] * c.iCoef1 + header.iSamp[2] * c.iCoef2) \div FIXED_POINT_COEF_BASE

lPredSamp(s, header) ==
    LET c == s.adpcm.aCoef[header.bPredictor + 1]
    IN  CDiv(header.iSamp[1] * c.iCoef1 + header.iSamp[2] * c.iCoef2, FIXED_POINT_COEF_BASE)

\* decode_adpcm_sample_frame, channel i and the channels after it; nib is
\* the local copy of the nibble byte
RECURSIVE DecodeChannels(_, _, _), DecodeHigh(_, _, _)
DecodeChannels(s, i, nib) ==
    IF i > s.fmt.wChannels
      THEN [ ok |-> TRUE, s |-> [ s EXCEPT !.adpcm.nibble = nib ], fault |-> "none" ]
    ELSE IF i > Len(s.adpcm.blockheaders)
              \/ s.adpcm.blockheaders[i].bPredictor >= Len(s.adpcm.aCoef)
      \* aCoef[bPredictor] is read outside the coefficient table
      THEN [ ok |-> FALSE, s |-> s, fault |-> "ub" ]
    ELSE IF s.adpcm.nibble_state = 0
      THEN DecodeHigh(s, i, read_uint8(s))
    ELSE DecodeChannels(
           [ s EXCEPT
               !.adpcm.nibble_state = 0,
               !.adpcm.blockheaders[i] =
                   do_adpcm_nibble(nib % 16, s.adpcm.blockheaders[i],
                                   lPredSamp(s, s.adpcm.blockheaders[i])) ],
           i + 1, nib)

\* lines 306-311: r is the read of the next nibble byte
DecodeHigh(s, i, r) ==
    IF ~r.ok THEN [ ok |-> FALSE, s |-> r.s, fault |-> "none" ]
    ELSE DecodeChannels(
           [ r.s EXCEPT
               !.adpcm.nibble_state = 1,
               !.adpcm.blockheaders[i] =
                   do_adpcm_nibble(r.got[1] \div 16, s.adpcm.blockheaders[i],
                                   lPredSamp(s, s.adpcm.blockheaders[i])) ],
           i + 1, r.got[1])

decode_adpcm_sample_frame(s) == DecodeChannels(s, 1, s.adpcm.nibble)

\* storing bytes at offset off of a buffer (offsets are 0-based)
WriteAt(buf, off, bytes) ==
    [ k \in 1..Max(Len(buf), off + Len(bytes)) |->
        IF k > off /\ k <= off + Len(bytes) THEN bytes[k - off]
        ELSE IF k <= Len(buf) THEN buf[k] ELSE 0 ]

\* put_adpcm_sample_frame: one Uint16 per channel
FrameBytes(s, frame) ==
    Flatten([ i \in 1..s.fmt.wChannels |-> LE16(s.adpcm.blockheaders[i].iSamp[frame + 1]) ])

put_adpcm_sample_frame(s, buf, bw, frame) == WriteAt(buf, bw, FrameBytes(s, frame))

DecLeft(s) == [ s EXCEPT !.adpcm.samples_left_in_block = @ - 1 ]

\* read_sample_fmt_adpcm: the loop, with bw bytes written so far
RECURSIVE ReadAdpcmLoop(_, _, _, _), ReadAdpcmNewBlock(_, _, _, _),
          ReadAdpcmDecoded(_, _, _, _)
ReadAdpcmLoop(s, buf, bw, len) ==
    IF ~(bw < len) THEN [ s |-> s, ret |-> bw, buf |-> buf, fault |-> "none" ]
    ELSE IF s.fmt.adpcm_sample_frame_size = 0
      \* no channel: nothing is read, bw never grows
      THEN [ s |-> s, ret |-> bw, buf |-> buf, fault |-> "hang" ]
    ELSE IF s.adpcm.samples_left_in_block = 0
      THEN ReadAdpcmNewBlock(read_adpcm_block_headers(s), buf, bw, len)
    ELSE IF s.adpcm.samples_left_in_block = 1
      THEN ReadAdpcmLoop(DecLeft(s), put_adpcm_sample_frame(s, buf, bw, 0),
                         bw + s.fmt.adpcm_sample_frame_size, len)
    ELSE ReadAdpcmDecoded(decode_adpcm_sample_frame(DecLeft(s)),
                          put_adpcm_sample_frame(s, buf, bw, 0),
                          bw + s.fmt.adpcm_sample_frame_size, len)

\* case 0, lines 343-350: r is the read of the block header
ReadAdpcmNewBlock(r, buf, bw, len) ==
    IF ~r.ok THEN [ s |-> r.s, ret |-> bw, buf |-> buf, fault |-> "none" ]
    ELSE ReadAdpcmLoop(DecLeft(r.s), put_adpcm_sample_frame(r.s, buf, bw, 1),
                       bw + r.s.fmt.adpcm_sample_frame_size, len)

\* default, lines 358-364: d is the decoding of the next frame
ReadAdpcmDecoded(d, buf1, bw1, len) ==
    IF d.fault # "none" THEN [ s |-> d.s, ret |-> bw1, buf |-> buf1, fault |-> d.fault ]
    ELSE IF ~d.ok THEN [ s |-> d.s, ret |-> bw1, buf |-> buf1, fault |-> "none" ]
    ELSE ReadAdpcmLoop(d.s, buf1, bw1, len)

read_sample_fmt_adpcm(s, len) == ReadAdpcmLoop(s, << >>, 0, len)

ReadNormalGot(s, got) ==
    [ s |-> [ s EXCEPT !.pos = s.pos + Len(got) ],
      ret |-> Len(got), buf |-> got, fault |-> "none" ]

read_sample_fmt_normal(s, len) == ReadNormalGot(s, FreadBytes(s.filename, s.pos, len))

(***************************************************************************)
(* Read.  tmpbuf / tmpbufsize are the function's static scratch storage,   *)
(* one for the whole process: tb = [size, data], data the Sint16 entries.  *)
(* The entries of a new[] array are indeterminate: fill is what they       *)
(* hold.  A Read that runs alone writes every entry it later copies out,   *)
(* so that its result does not depend on fill.                             *)
(***************************************************************************)
NoTmpbuf == [ size |-> 0, data |-> << >> ]

\* the Sint16 stored at index k (0-based) of a byte buffer
S16At(buf, k) == ToS16(buf[2 * k + 1] + 256 * buf[2 * k + 2])

\* the first n entries of tmpbuf as bytes (memcpy( buf, tmpbuf, n * sizeof(Sint16) ))
TmpBytes(tb, n) == Flatten([ k \in 1..n |-> LE16(tb.data[k]) ])

\* lines 549-569: the assertion, the format dispatch and the raw read
ReadRaw(s, len) ==
    IF len % s.Input_Buffer_Ratio # 0
      THEN [ s |-> s, ret |-> 0, buf |-> << >>, fault |-> "abort" ]
    ELSE IF s.fmt.wFormatTag # FMT_NORMAL /\ s.fmt.wFormatTag # FMT_ADPCM
      THEN [ s |-> s, ret |-> 0, buf |-> << >>, fault |-> "abort" ]
    ELSE IF ~s.rw
      \* fread on a NULL FILE
      THEN [ s |-> s, ret |-> 0, buf |-> << >>, fault |-> "ub" ]
    ELSE IF s.fmt.wFormatTag = FMT_NORMAL
      THEN read_sample_fmt_normal(s, len \div s.Input_Buffer_Ratio)
    ELSE read_sample_fmt_adpcm(s, len \div s.Input_Buffer_Ratio)

\* lines 584-589
TmpReallocWith(tb, len, fill) ==
    IF len > tb.size THEN [ size |-> len, data |-> [ k \in 1..len |-> fill ] ] ELSE tb

TmpRealloc(tb, len) == TmpReallocWith(tb, len, 0)

\* a widening that leaves the bias of the 8-bit samples in
Widen8Biased(b) == ToS16((IF b >= 128 THEN b - 256 ELSE b) * 256)

\* (Sint16(buf[s]) - 128) << 8, buf being an array of (signed) char
Widen8(b) == ToS16(((IF b >= 128 THEN b - 256 ELSE b) - 128) * 256)

\* lines 592-593
WidenFill(tb, buf, ret) ==
    [ tb EXCEPT !.data = [ k \in 1..tb.size |-> IF k <= ret THEN Widen8(buf[k]) ELSE @[k] ] ]

\* lines 600-602
MonoFill(tb, buf, ret) ==
    [ tb EXCEPT !.data = [ k \in 1..tb.size |->
                             IF k <= 2 * (ret \div 2) THEN S16At(buf, (k - 1) \div 2)
                             ELSE @[k] ] ]

\* a copy that leaves the count as it was
ConvertCopySameCount(tb, ret) == [ tb |-> tb, buf |-> TmpBytes(tb, ret), ret |-> ret ]

\* lines 571-607: the conversions of ret raw bytes, up to the return
\* memcpy( buf, tmpbuf, ret * sizeof(Sint16) ); ret *= 2
ConvertCopy(tb, ret) == [ tb |-> tb, buf |-> TmpBytes(tb, ret), ret |-> ret * 2 ]

\* lines 590-596: the 8-bit samples widened through tmpbuf
ConvertWide(s, c) ==
    IF s.Conversion # CONV_8BIT_TO_16BIT THEN c
    ELSE ConvertCopy(WidenFill(c.tb, c.buf, c.ret), c.ret)

\* lines 598-605: one channel doubled through tmpbuf
ConvertMono(s, c) ==
    IF s.Channels # 1 THEN c
    ELSE ConvertCopy(MonoFill(c.tb, c.buf, c.ret), c.ret)

\* lines 571-607: the conversions of ret raw bytes, up to the return
ReadConvert(s, tb, buf, ret, len) ==
    ConvertMono(s, ConvertWide(s, [ tb |-> TmpRealloc(tb, len), buf |-> buf, ret |-> ret ]))

ReadDeliver(s, c) == [ s |-> s, tb |-> c.tb, ret |-> c.ret, buf |-> c.buf, fault |-> "none" ]

\* lines 568-607: raw is the outcome of the format's read function
ReadFinish(raw, tb, len) ==
    IF raw.fault # "none"
      THEN [ s |-> raw.s, tb |-> tb, ret |-> 0, buf |-> << >>, fault |-> raw.fault ]
    ELSE IF raw.ret <= 0
      THEN [ s |-> raw.s, tb |-> tb, ret |-> raw.ret, buf |-> << >>, fault |-> "none" ]
    ELSE ReadDeliver(raw.s, ReadConvert(raw.s, tb, raw.buf, raw.ret, len))

Read(s, tb, len) == ReadFinish(ReadRaw(s, len), tb, len)

(***************************************************************************)
(* SetPosition                                                             *)
(***************************************************************************)
\* lines 191-195: f is the fseek to pos
SeekNormalDone(f, pos, ms) ==
    IF f.rc # pos THEN [ s |-> f.s, ret |-> -1, fault |-> "none" ]
    ELSE [ s |-> f.s, ret |-> ms, fault |-> "none" ]

SeekNormalTo(s, pos, ms) == SeekNormalDone(Fseek(s, pos), pos, ms)

seek_sample_fmt_normal(s, ms) ==
    SeekNormalTo(s, Add32(s.fmt.data_starting_offset,
                          ConvertMsToBytePos(s, s.BytesPerSample, s.Channels, ms)), ms)

\* lines 393-409: decode and drop rc bytes of frames
RECURSIVE SeekDecode(_, _, _), SeekDecoded(_, _, _)
SeekDecode(s, rc, ms) ==
    IF ~(rc > 0) THEN [ s |-> s, ret |-> ms, fault |-> "none" ]
    ELSE SeekDecoded(decode_adpcm_sample_frame(s), rc - s.fmt.adpcm_sample_frame_size, ms)

\* lines 395-403: d is the decoding of one frame
SeekDecoded(d, rc, ms) ==
    IF d.fault # "none" THEN [ s |-> d.s, ret |-> 0, fault |-> d.fault ]
    ELSE IF ~d.ok
      THEN [ s |-> [ Fseek(d.s, 0).s EXCEPT !.adpcm.samples_left_in_block = 0 ],
             ret |-> 0, fault |-> "none" ]
    ELSE SeekDecode(DecLeft(d.s), rc, ms)

\* lines 385-409: h is the read of the block header
SeekAdpcmBlock(h, rc, ms) ==
    IF ~h.ok
      THEN [ s |-> [ Fseek(h.s, 0).s EXCEPT !.adpcm.samples_left_in_block = 0 ],
             ret |-> 0, fault |-> "none" ]
    ELSE SeekDecode(DecLeft(h.s), rc - h.s.fmt.adpcm_sample_frame_size, ms)

\* lines 379-384: f is the fseek to pos
SeekAdpcmDone(f, pos, rc, ms) ==
    IF f.rc = -1 THEN [ s |-> SetError(f.s, "seek failed"), ret |-> 0, fault |-> "none" ]
    ELSE IF f.rc # pos THEN [ s |-> SetError(f.s, "end of file"), ret |-> 0, fault |-> "none" ]
    ELSE SeekAdpcmBlock(read_adpcm_block_headers(f.s), rc, ms)

SeekAdpcmTo(s, pos, rc, ms) == SeekAdpcmDone(Fseek(s, pos), pos, rc, ms)

\* lines 374-378
SeekAdpcmOffset(s, offset, bpb, ms) ==
    IF bpb = 0
      \* offset / bpb divides by zero
      THEN [ s |-> s, ret |-> 0, fault |-> "ub" ]
    ELSE SeekAdpcmTo(s, Add32(CDiv(offset, bpb) * s.fmt.wBlockAlign,
                              s.fmt.data_starting_offset),
                     CMod(offset, bpb), ms)

seek_sample_fmt_adpcm(s, ms) ==
    SeekAdpcmOffset(s, ConvertMsToBytePos(s, s.BytesPerSample, s.Channels, ms),
                    s.adpcm.wSamplesPerBlock * s.fmt.adpcm_sample_frame_size, ms)

SetPosition(s, ms) ==
    IF s.fmt.wFormatTag # FMT_NORMAL /\ s.fmt.wFormatTag # FMT_ADPCM
      THEN [ s |-> s, ret |-> -1, fault |-> "abort" ]
    ELSE IF ~s.rw
      \* fseek on a NULL FILE
      THEN [ s |-> s, ret |-> -1, fault |-> "ub" ]
    ELSE IF s.fmt.wFormatTag = FMT_NORMAL THEN seek_sample_fmt_normal(s, ms)
    ELSE seek_sample_fmt_adpcm(s, ms)

(***************************************************************************)
(* GetLength                                                               *)
(***************************************************************************)
\* fseek( rw, 0, SEEK_END )
FseekEnd(s) == [ s EXCEPT !.pos = FileLen(s.filename) ]

get_length_fmt_normal(s) ==
    IF s.BytesPerSample * s.Channels = 0 \/ s.SampleRate = 0
      \* ConvertBytePosToMs divides by zero
      THEN [ s |-> FseekEnd(s), ret |-> 0, fault |-> "ub" ]
      ELSE [ s |-> FseekEnd(s),
             ret |-> ConvertBytePosToMs(s, s.BytesPerSample, s.Channels,
                                        FseekEnd(s).pos - s.fmt.data_starting_offset),
             fault |-> "none" ]

\* get_length_fmt_adpcm.  tmp_adpcm is a local that is never initialised:
\* tmpHeaders is the memory its blockheaders pointer happens to point at,
\* tmpSamples the value its wSamplesPerBlock happens to hold.  headers is
\* that memory after the call.
\* lines 214-219: h is the read of the block header into tmp_adpcm
LengthAdpcmHeader(s, h, byteno, tmpSamples) ==
    IF ~h.ok
      THEN [ s |-> h.s, ret |-> 0, headers |-> h.headers, fault |-> "none" ]
    ELSE IF s.BytesPerSample * s.Channels = 0 \/ s.SampleRate = 0
      THEN [ s |-> h.s, ret |-> 0, headers |-> h.headers, fault |-> "ub" ]
    ELSE [ s |-> h.s,
           ret |-> Add32(ConvertBytePosToMs(s, s.BytesPerSample, s.Channels, byteno),
                         ConvertBytePosToMs(s, s.BytesPerSample, s.Channels,
                                            tmpSamples * s.fmt.adpcm_sample_frame_size)),
           headers |-> h.headers, fault |-> "none" ]

\* lines 206-215: blockno is computed from the offset of lines 200-203, the
\* header of that block is read into tmp_adpcm
LengthAdpcmBlock(s, blockno, tmpHeaders, tmpSamples) ==
    LengthAdpcmHeader(
        s,
        ReadBlockHeaders(
            Fseek(FseekEnd(s), blockno * s.fmt.wBlockAlign + s.fmt.data_starting_offset).s,
            tmpHeaders),
        blockno * (s.adpcm.wSamplesPerBlock * s.fmt.adpcm_sample_frame_size),
        tmpSamples)

get_length_fmt_adpcm(s, tmpHeaders, tmpSamples) ==
    IF s.fmt.wBlockAlign = 0
      THEN [ s |-> FseekEnd(s), ret |-> 0, headers |-> tmpHeaders, fault |-> "ub" ]
    ELSE LengthAdpcmBlock(s, CDiv(0 - s.fmt.data_starting_offset, s.fmt.wBlockAlign),
                          tmpHeaders, tmpSamples)

\* GetLength: the cursor is put back after the format's length function
GetLengthRestore(s, origpos) == Fseek(s, origpos)

\* lines 640-642: r is the fseek back to origpos
LengthRestored(g, r) ==
    IF r.rc = -1
      THEN [ s |-> SetError(r.s, "seek failed"), ret |-> -1, headers |-> g.headers,
             fault |-> "none" ]
    ELSE [ s |-> r.s, ret |-> g.ret, headers |-> g.headers, fault |-> "none" ]

\* g is the outcome of the format's length function
LengthDone(g, origpos) ==
    IF g.fault # "none" THEN g ELSE LengthRestored(g, GetLengthRestore(g.s, origpos))

\* lines 629-637
LengthByFormat(s, tmpHeaders, tmpSamples) ==
    IF s.fmt.wFormatTag = FMT_NORMAL
      THEN [ s |-> get_length_fmt_normal(s).s, ret |-> get_length_fmt_normal(s).ret,
             headers |-> tmpHeaders, fault |-> get_length_fmt_normal(s).fault ]
    ELSE IF s.fmt.wFormatTag = FMT_ADPCM
      THEN get_length_fmt_adpcm(s, tmpHeaders, tmpSamples)
    ELSE [ s |-> s, ret |-> 0, headers |-> tmpHeaders, fault |-> "none" ]

GetLength(s, tmpHeaders, tmpSamples) ==
    IF ~s.rw
      \* ftell on a NULL FILE
      THEN [ s |-> s, ret |-> 0, headers |-> tmpHeaders, fault |-> "ub" ]
    ELSE LengthDone(LengthByFormat(s, tmpHeaders, tmpSamples), s.pos)

(***************************************************************************)
(* Player (Player.cpp): one player's tap notes, hold notes and their       *)
(* scores.  Beats are counted in note rows (NoteRowToBeat and              *)
(* BeatToNoteRow rescale by a fixed factor), so a row index is also the    *)
(* beat of that row.  A hold note's life is counted in steps of            *)
(* 1/LifeFull, and fDeltaTime in the time that moves the life by one step  *)
(* (HOLD_ARROW_NG_TIME/LifeFull seconds); fDeltaTime is never negative.    *)
(***************************************************************************)
Tracks == 0..(NumTracks - 1)
Rows == 0..(MaxRows - 1)

HNR_NONE == "HNR_NONE"
HNR_NG == "HNR_NG"
HNR_OK == "HNR_OK"
TNS_NONE == "TNS_NONE"
TNS_PERFECT == "TNS_PERFECT"
TNS_GREAT == "TNS_GREAT"
TNS_GOOD == "TNS_GOOD"
TNS_BOO == "TNS_BOO"
TNS_MISS == "TNS_MISS"

\* a HoldNoteScore as constructed: its constructor is declared outside
\* Player.cpp; a hold note starts without a result and with its life full,
\* the value Update clamps the life to and resets it to
NewHoldNoteScore ==
    [ m_fLife |-> LifeFull, m_Result |-> HNR_NONE, m_TapNoteScore |-> TNS_NONE,
      judgements |-> << >> ]   \* what SetHoldJudgement was called with for this note

NoNotes == [ t \in Tracks |-> [ r \in Rows |-> "0" ] ]

\* Player::Player; scored[r] counts the AddToScore calls of OnRowDestroyed for row r
NewPlayer ==
    [ loaded |-> FALSE,
      m_fSongBeat |-> 0,
      m_TapNotesOriginal |-> NoNotes,
      m_TapNotes |-> NoNotes,
      m_TapNoteScores |-> [ r \in Rows |-> TNS_NONE ],
      m_HoldNotes |-> << >>,
      m_HoldNoteScores |-> [ i \in 1..MaxHoldNotes |-> NewHoldNoteScore ],
      scored |-> [ r \in Rows |-> 0 ] ]

\* Player::Load: CopyAll( pNoteData ) and the copy into m_TapNotesOriginal
LoadPlayer(p, notes) ==
    [ p EXCEPT !.loaded = TRUE,
               !.m_TapNotes = notes.taps,
               !.m_TapNotesOriginal = notes.taps,
               !.m_HoldNotes = notes.holds ]

\* the score of a step fBeatsUntilStep rows away from its note, within a
\* window of fMaxBeatDiff rows: fPercentFromPerfect = fabsf( d / fMaxBeatDiff ),
\* which is a NaN or an infinity for a window of 0 and then fails every test
TapScore(fBeatsUntilStep, fMaxBeatDiff) ==
    IF fMaxBeatDiff = 0 THEN TNS_BOO
    ELSE IF 4 * Abs(fBeatsUntilStep) < fMaxBeatDiff THEN TNS_PERFECT
    ELSE IF 2 * Abs(fBeatsUntilStep) < fMaxBeatDiff THEN TNS_GREAT
    ELSE IF 4 * Abs(fBeatsUntilStep) < 3 * fMaxBeatDiff THEN TNS_GOOD
    ELSE TNS_BOO

\* Player::UpdateTapNotesMissedOlderThan: a row older than the beat that
\* has no score and is not empty (IsRowEmpty: no track holds a note) is a miss
UpdateTapNotesMissedOlderThan(p, fMissIfOlderThanThisBeat) ==
    [ p EXCEPT !.m_TapNoteScores =
        [ r \in Rows |->
            IF /\ Max(0, fMissIfOlderThanThisBeat - 10) <= r
               /\ r < fMissIfOlderThanThisBeat
               /\ p.m_TapNoteScores[r] = TNS_NONE
               /\ \E t \in Tracks : p.m_TapNotes[t][r] # "0"
              THEN TNS_MISS
            ELSE p.m_TapNoteScores[r] ] ]

\* InHoldRange without the test against the end of the note
InHoldRangeOpenEnd(hn, m_fSongBeat) ==
    hn.m_iStartIndex < m_fSongBeat

\* "if the song beat is in the range of this hold"
InHoldRange(hn, m_fSongBeat) ==
    hn.m_iStartIndex < m_fSongBeat /\ m_fSongBeat < hn.m_iEndIndex

\* the life of a hold note after "update the life"
HoldLife(hn, hns, m_fSongBeat, fDeltaTime, bIsHoldingButton) ==
    IF ~InHoldRange(hn, m_fSongBeat) THEN hns.m_fLife
    ELSE IF bIsHoldingButton THEN Min(hns.m_fLife + fDeltaTime, LifeFull)
    ELSE Max(hns.m_fLife - fDeltaTime, 0)

\* "check for NG", run on the updated life
CheckNG(hns, life) ==
    IF life = 0
      THEN [ hns EXCEPT !.m_fLife = life, !.m_Result = HNR_NG,
                        !.judgements = Append(@, HNR_NG) ]
    ELSE [ hns EXCEPT !.m_fLife = life ]

\* "check for OK", which follows the NG check whatever that one did
CheckOK(hn, hns, m_fSongBeat) ==
    IF m_fSongBeat > hn.m_iEndIndex
      THEN [ hns EXCEPT !.m_fLife = LifeFull, !.m_Result = HNR_OK,
                        !.judgements = Append(@, HNR_OK) ]
    ELSE hns

\* one turn of the loop "update HoldNotes logic" of Player::Update
UpdateHoldNote(hn, hns, m_fSongBeat, fDeltaTime, bIsHoldingButton) ==
    IF hns.m_Result # HNR_NONE THEN hns
    ELSE CheckOK(hn, CheckNG(hns, HoldLife(hn, hns, m_fSongBeat, fDeltaTime,
                                           bIsHoldingButton)),
                 m_fSongBeat)

\* Player::Update; down[t] is what IsButtonDown answers for track t
PlayerUpdate(p, fDeltaTime, fSongBeat, fMaxBeatDifference, down) ==
    [ UpdateTapNotesMissedOlderThan(p, p.m_fSongBeat - fMaxBeatDifference)
        EXCEPT !.m_HoldNoteScores =
                 [ i \in 1..MaxHoldNotes |->
                     IF i > Len(p.m_HoldNotes) THEN p.m_HoldNoteScores[i]
                     ELSE UpdateHoldNote(p.m_HoldNotes[i], p.m_HoldNoteScores[i],
                                         p.m_fSongBeat, fDeltaTime,
                                         down[p.m_HoldNotes[i].m_iTrack]) ],
               !.m_fSongBeat = fSongBeat ]

\* the search of CheckForCompleteRow, outward from the row of the step: the
\* row of the first note found in column col, or -1
RECURSIVE ClosestRow(_, _, _, _, _)
ClosestRow(notes, col, iIndexStartLookingAt, iNumElementsToExamine, delta) ==
    IF delta > iNumElementsToExamine THEN -1
    ELSE IF notes[col][clamp(iIndexStartLookingAt - delta, 0, MaxRows - 1)] # "0"
      THEN clamp(iIndexStartLookingAt - delta, 0, MaxRows - 1)
    ELSE IF notes[col][clamp(iIndexStartLookingAt + delta, 0, MaxRows - 1)] # "0"
      THEN clamp(iIndexStartLookingAt + delta, 0, MaxRows - 1)
    ELSE ClosestRow(notes, col, iIndexStartLookingAt, iNumElementsToExamine, delta + 1)

\* "did this complete the elminiation of the row?": the loop runs over the
\* tracks t and tests m_TapNotes[col] in every turn
RowDestroyed(notes, col, row) ==
    \A t \in Tracks : notes[col][row] = "0"

\* Player::OnRowDestroyed
OnRowDestroyed(p, fSongBeat, fMaxBeatDiff, iIndexThatWasSteppedOn) ==
    [ p EXCEPT !.m_TapNoteScores[iIndexThatWasSteppedOn] =
                 TapScore(iIndexThatWasSteppedOn - fSongBeat, fMaxBeatDiff),
               !.scored[iIndexThatWasSteppedOn] = @ + 1 ]

\* the note found is marked hit, and the row scored if RowDestroyed says so
HitRow(p, fSongBeat, col, fMaxBeatDiff, row) ==
    IF RowDestroyed([ p.m_TapNotes EXCEPT ![col][row] = "0" ], col, row)
      THEN OnRowDestroyed([ p EXCEPT !.m_TapNotes[col][row] = "0" ],
                          fSongBeat, fMaxBeatDiff, row)
    ELSE [ p EXCEPT !.m_TapNotes[col][row] = "0" ]

\* Player::CheckForCompleteRow
CheckForCompleteRow(p, fSongBeat, col, fMaxBeatDiff) ==
    IF ClosestRow(p.m_TapNotes, col, fSongBeat, fMaxBeatDiff, 0) = -1 THEN p
    ELSE HitRow(p, fSongBeat, col, fMaxBeatDiff,
                ClosestRow(p.m_TapNotes, col, fSongBeat, fMaxBeatDiff, 0))

\* Player::HandlePlayerStep: the row check, then the tap part of the hold notes
HandlePlayerStep(p, fSongBeat, col, fMaxBeatDiff) ==
    [ CheckForCompleteRow(p, fSongBeat, col, fMaxBeatDiff)
        EXCEPT !.m_HoldNoteScores =
          [ i \in 1..MaxHoldNotes |->
              IF /\ i <= Len(p.m_HoldNotes)
                 /\ p.m_HoldNoteScores[i].m_Result = HNR_NONE
                 /\ p.m_HoldNoteScores[i].m_TapNoteScore = TNS_NONE
                 /\ col = p.m_HoldNotes[i].m_iTrack
                 /\ Abs(p.m_HoldNotes[i].m_iStartIndex - fSongBeat) <= fMaxBeatDiff
                THEN [ p.m_HoldNoteScores[i] EXCEPT !.m_TapNoteScore =
                         TapScore(p.m_HoldNotes[i].m_iStartIndex - fSongBeat,
                                  fMaxBeatDiff) ]
              ELSE p.m_HoldNoteScores[i] ] ]

(***************************************************************************)
(* The program: two reader objects in one process.  Reader 1 is            *)
(* constructed at start; reader 2 is the one Copy creates.  Under Spec the *)
(* caller makes one call at a time; SpecOpen is the caller that tries file *)
(* after file on reader 1; SpecThreads lets two threads run Read           *)
(* concurrently, each on its own reader.                                   *)
(***************************************************************************)
VARIABLES st,       \* st[i]: reader i
          alive,    \* alive[i]: reader i exists
          tmpbuf,   \* Read's static tmpbuf / tmpbufsize
          last,     \* the call that returned last: reader, operation, argument, result
          fault,    \* "none" while the process runs
          atStart,  \* atStart[i]: reader i was opened or sent to position 0 and not moved since
          thr,      \* thr[t]: the Read thread t is executing on reader t (SpecThreads)
          calls,    \* number of calls made so far
          player    \* the Player object (SpecPlayer)

vars == << st, alive, tmpbuf, last, fault, atStart, thr, calls, player >>

Readers == { 1, 2 }
Other(i) == 3 - i

\* the files that are played under Spec and SpecThreads
PlayFiles == { "pcm8m.wav", "pcm16s.wav", "adpcm.wav", "adpcm_trunc.wav", "adpcm_s.wav",
               "pcm8s.wav", "pcm16m.wav", "pcm8m_tail.wav" }

\* the files that are played under SpecEdge: a data chunk that starts late
\* in the file, and block sizes at the low end of what Open accepts
EdgeFiles == { "pcm16m_late.wav", "adpcm_spb0.wav", "adpcm_spb1.wav", "adpcm_s.wav" }

\* the positions SetPosition is called with
SeekTargets == { 0, 3, MaxMs }

\* the positions SetPosition is called with under SpecEdge; the last one is a
\* position whose byte offset does not fit 32 bits in a stream of 2-byte frames
EdgeSeekTargets == { 0, 3, 2147483520 }

\* what the indeterminate tmp_adpcm of get_length_fmt_adpcm can hold: a
\* blockheaders pointer into unmapped memory, into memory nothing else uses,
\* or a stale copy of a reader's blockheaders pointer left on the stack
WildTargets == { "unmapped", "scratch", "own", "other" }
WildSamples == { 0, 4 }

\* what the entries of a newly allocated tmpbuf can hold
FreshValues == { 0, -1 }

IdleThread == [ pc |-> "idle", len |-> 0, ret |-> 0, buf |-> << >>, aloneRet |-> 0,
                aloneBuf |-> << >> ]
NoCall == [ inst |-> 0, op |-> "none", arg |-> 0, ret |-> 0, buf |-> << >> ]

Init ==
    /\ st = [ i \in Readers |-> NewReader ]
    /\ alive = [ i \in Readers |-> i = 1 ]
    /\ tmpbuf = NoTmpbuf
    /\ last = NoCall
    /\ fault = "none"
    /\ atStart = [ i \in Readers |-> FALSE ]
    /\ thr = [ t \in Readers |-> IdleThread ]
    /\ calls = 0
    /\ player = NewPlayer

Running(i) == fault = "none" /\ alive[i] /\ calls < MaxCalls

DoOpen(i, f) ==
    /\ Running(i)
    /\ LET r == Open(st[i], f)
       IN  /\ st' = [ st EXCEPT ![i] = r.s ]
           /\ fault' = r.fault
           /\ last' = [ inst |-> i, op |-> "Open", arg |-> f, ret |-> r.rc, buf |-> << >> ]
           /\ atStart' = [ atStart EXCEPT ![i] = r.fault = "none" /\ r.rc = OPEN_OK ]
    /\ calls' = calls + 1
    /\ UNCHANGED << player, alive, tmpbuf, thr >>

\* Copy: a new reader that opens the original's file name
DoCopy ==
    /\ Running(1) /\ ~alive[2] /\ st[1].opened
    /\ LET r == Open(NewReader, st[1].filename)
       IN  /\ st' = [ st EXCEPT ![2] = r.s ]
           /\ fault' = r.fault
           /\ last' = [ inst |-> 2, op |-> "Copy", arg |-> st[1].filename, ret |-> r.rc,
                        buf |-> << >> ]
           /\ atStart' = [ atStart EXCEPT ![2] = r.fault = "none" /\ r.rc = OPEN_OK ]
    /\ alive' = [ alive EXCEPT ![2] = TRUE ]
    /\ calls' = calls + 1
    /\ UNCHANGED << player, tmpbuf, thr >>

\* delete of the copy: the destructor closes it
DoDelete ==
    /\ Running(2)
    /\ st' = [ st EXCEPT ![2] = NewReader ]
    /\ alive' = [ alive EXCEPT ![2] = FALSE ]
    /\ atStart' = [ atStart EXCEPT ![2] = FALSE ]
    /\ last' = [ inst |-> 2, op |-> "Delete", arg |-> 0, ret |-> 0, buf |-> << >> ]
    /\ calls' = calls + 1
    /\ UNCHANGED << player, tmpbuf, fault, thr >>

DoClose(i) ==
    /\ Running(i) /\ st[i].opened
    /\ st' = [ st EXCEPT ![i] = Close(st[i]) ]
    /\ atStart' = [ atStart EXCEPT ![i] = FALSE ]
    /\ last' = [ inst |-> i, op |-> "Close", arg |-> 0, ret |-> 0, buf |-> << >> ]
    /\ calls' = calls + 1
    /\ UNCHANGED << player, alive, tmpbuf, fault, thr >>

\* the lengths Read is called with: multiples of Input_Buffer_Ratio
ReadLens(s) == { 2 * k * s.Input_Buffer_Ratio : k \in 1..MaxReadUnits }

DoRead(i, len) ==
    /\ Running(i) /\ st[i].opened
    /\ len \in ReadLens(st[i])
    /\ LET r == Read(st[i], tmpbuf, len)
       IN  /\ st' = [ st EXCEPT ![i] = r.s ]
           /\ tmpbuf' = r.tb
           /\ fault' = r.fault
           /\ last' = [ inst |-> i, op |-> "Read", arg |-> len, ret |-> r.ret, buf |-> r.buf ]
    /\ atStart' = [ atStart EXCEPT ![i] = FALSE ]
    /\ calls' = calls + 1
    /\ UNCHANGED << player, alive, thr >>

DoSetPosition(i, ms) ==
    /\ Running(i) /\ st[i].opened
    /\ LET r == SetPosition(st[i], ms)
       IN  /\ st' = [ st EXCEPT ![i] = r.s ]
           /\ fault' = r.fault
           /\ last' = [ inst |-> i, op |-> "SetPosition", arg |-> ms, ret |-> r.ret,
                        buf |-> << >> ]
           /\ atStart' = [ atStart EXCEPT ![i] = r.fault = "none" /\ ms = 0 ]
    /\ calls' = calls + 1
    /\ UNCHANGED << player, alive, tmpbuf, thr >>

\* the memory the wild pointer designates
WildHeaders(i, wild) ==
    IF wild = "own" THEN st[i].adpcm.blockheaders
    ELSE IF wild = "other" THEN st[Other(i)].adpcm.blockheaders
    ELSE [ k \in 1..st[i].fmt.wChannels |-> ZeroHeader ]

DoGetLength(i, wild, samples) ==
    /\ Running(i) /\ st[i].opened
    /\ LET usesTmp == st[i].rw /\ st[i].fmt.wFormatTag = FMT_ADPCM
           r == GetLength(st[i], WildHeaders(i, wild), samples)
           hit == IF ~usesTmp \/ r.fault # "none" THEN 0
                  ELSE IF wild = "own" THEN i
                  ELSE IF wild = "other" THEN Other(i)
                  ELSE 0
       IN  /\ usesTmp \/ (wild = "scratch" /\ samples = 0)
           /\ wild = "other" => alive[Other(i)] /\ st[Other(i)].adpcm.blockheadersHeld
           /\ st' = [ k \in Readers |->
                        IF k = hit
                          THEN [ (IF k = i THEN r.s ELSE st[k]) EXCEPT
                                    !.adpcm.blockheaders = r.headers ]
                        ELSE IF k = i THEN r.s
                        ELSE st[k] ]
           /\ fault' = IF usesTmp /\ wild = "unmapped" /\ r.fault = "none" THEN "ub"
                       ELSE r.fault
           /\ last' = [ inst |-> i, op |-> "GetLength", arg |-> 0, ret |-> r.ret,
                        buf |-> << >> ]
    /\ calls' = calls + 1
    /\ UNCHANGED << player, alive, tmpbuf, atStart, thr >>

Next ==
    \/ \E f \in PlayFiles : DoOpen(1, f)
    \/ DoCopy
    \/ DoDelete
    \/ \E i \in Readers : DoClose(i)
    \/ \E i \in Readers, len \in 1..(8 * MaxReadUnits) : DoRead(i, len)
    \/ \E i \in Readers, ms \in SeekTargets : DoSetPosition(i, ms)
    \/ \E i \in Readers, wild \in WildTargets, samples \in WildSamples :
          DoGetLength(i, wild, samples)

Spec == Init /\ [][Next]_vars

\* SpecEdge: the caller of Spec on the files of EdgeFiles, seeking far
NextEdge ==
    \/ \E f \in EdgeFiles : DoOpen(1, f)
    \/ \E i \in Readers, len \in 1..(8 * MaxReadUnits) : DoRead(i, len)
    \/ \E i \in Readers, ms \in EdgeSeekTargets : DoSetPosition(i, ms)
    \/ \E i \in Readers, wild \in WildTargets, samples \in WildSamples :
          DoGetLength(i, wild, samples)

SpecEdge == Init /\ [][NextEdge]_vars

(***************************************************************************)
(* SpecOpen: a caller that opens any of the files on reader 1, reads from  *)
(* what opened and closes it, MaxOpenCalls calls in all.                   *)
(***************************************************************************)
TryOpen(f) == calls < MaxOpenCalls /\ DoOpen(1, f)
TryClose == calls < MaxOpenCalls /\ DoClose(1)
TryRead(len) == calls < MaxOpenCalls /\ DoRead(1, len)

NextOpen ==
    \/ \E f \in FileNames : TryOpen(f)
    \/ TryClose
    \/ \E len \in 1..(8 * MaxReadUnits) : TryRead(len)

SpecOpen == Init /\ [][NextOpen]_vars

(***************************************************************************)
(* SpecThreads: both readers are open, reader 2 being a copy or another    *)
(* file, and thread t calls Read on reader t.  The steps of one Read are   *)
(* its raw read (per-instance state only) and then each access to the      *)
(* static tmpbuf: the size test with the reallocation, each fill loop and  *)
(* each memcpy back.                                                       *)
(***************************************************************************)
InitThreads ==
    /\ st \in [ Readers -> { OpenTable[f].s : f \in PlayFiles } ]
    /\ alive = [ i \in Readers |-> TRUE ]
    /\ tmpbuf = NoTmpbuf
    /\ last = NoCall
    /\ fault = "none"
    /\ atStart = [ i \in Readers |-> TRUE ]
    /\ thr = [ t \in Readers |-> IdleThread ]
    /\ calls = 0
    /\ player = NewPlayer

Wide(t) == st[t].Conversion = CONV_8BIT_TO_16BIT
Mono(t) == st[t].Channels = 1

\* the call: what this Read delivers when nothing else runs is noted
ThreadCall(t, len) ==
    /\ fault = "none" /\ calls < MaxCalls
    /\ thr[t].pc = "idle"
    /\ len \in ReadLens(st[t])
    /\ LET alone == Read(st[t], tmpbuf, len)
       IN  thr' = [ thr EXCEPT ![t] = [ pc |-> "raw", len |-> len, ret |-> 0, buf |-> << >>,
                                        aloneRet |-> alone.ret, aloneBuf |-> alone.buf ] ]
    /\ calls' = calls + 1
    /\ UNCHANGED << player, st, alive, tmpbuf, last, fault, atStart >>

\* lines 549-569
ThreadRaw(t) ==
    /\ fault = "none" /\ thr[t].pc = "raw"
    /\ LET raw == ReadRaw(st[t], thr[t].len)
       IN  /\ st' = [ st EXCEPT ![t] = raw.s ]
           /\ fault' = raw.fault
           /\ thr' = [ thr EXCEPT ![t].ret = raw.ret, ![t].buf = raw.buf,
                                  ![t].pc = IF raw.ret <= 0 THEN "done" ELSE "alloc" ]
    /\ atStart' = [ atStart EXCEPT ![t] = FALSE ]
    /\ UNCHANGED << player, alive, tmpbuf, last, calls >>

\* lines 582-589
ThreadAlloc(t, fill) ==
    /\ fault = "none" /\ thr[t].pc = "alloc"
    /\ tmpbuf' = TmpReallocWith(tmpbuf, thr[t].len, fill)
    /\ thr' = [ thr EXCEPT ![t].pc = IF Wide(t) THEN "widenFill"
                                     ELSE IF Mono(t) THEN "monoFill" ELSE "done" ]
    /\ UNCHANGED << player, st, alive, last, fault, atStart, calls >>

\* lines 592-593
ThreadWidenFill(t) ==
    /\ fault = "none" /\ thr[t].pc = "widenFill"
    /\ tmpbuf' = WidenFill(tmpbuf, thr[t].buf, thr[t].ret)
    /\ thr' = [ thr EXCEPT ![t].pc = "widenCopy" ]
    /\ UNCHANGED << player, st, alive, last, fault, atStart, calls >>

\* lines 594-595
ThreadWidenCopy(t) ==
    /\ fault = "none" /\ thr[t].pc = "widenCopy"
    /\ thr' = [ thr EXCEPT ![t].buf = TmpBytes(tmpbuf, thr[t].ret),
                           ![t].ret = thr[t].ret * 2,
                           ![t].pc = IF Mono(t) THEN "monoFill" ELSE "done" ]
    /\ UNCHANGED << player, st, alive, tmpbuf, last, fault, atStart, calls >>

\* lines 600-602
ThreadMonoFill(t) ==
    /\ fault = "none" /\ thr[t].pc = "monoFill"
    /\ tmpbuf' = MonoFill(tmpbuf, thr[t].buf, thr[t].ret)
    /\ thr' = [ thr EXCEPT ![t].pc = "monoCopy" ]
    /\ UNCHANGED << player, st, alive, last, fault, atStart, calls >>

\* lines 603-604
ThreadMonoCopy(t) ==
    /\ fault = "none" /\ thr[t].pc = "monoCopy"
    /\ thr' = [ thr EXCEPT ![t].buf = TmpBytes(tmpbuf, thr[t].ret),
                           ![t].ret = thr[t].ret * 2,
                           ![t].pc = "done" ]
    /\ UNCHANGED << player, st, alive, tmpbuf, last, fault, atStart, calls >>

\* line 607: the caller has the result and may call again
ThreadReturn(t) ==
    /\ fault = "none" /\ thr[t].pc = "done"
    /\ last' = [ inst |-> t, op |-> "Read", arg |-> thr[t].len, ret |-> thr[t].ret,
                 buf |-> thr[t].buf ]
    /\ thr' = [ thr EXCEPT ![t] = IdleThread ]
    /\ UNCHANGED << player, st, alive, tmpbuf, fault, atStart, calls >>

NextThreads ==
    \/ \E t \in Readers, len \in 1..(8 * MaxReadUnits) : ThreadCall(t, len)
    \/ \E t \in Readers : ThreadRaw(t)
    \/ \E t \in Readers, fill \in FreshValues : ThreadAlloc(t, fill)
    \/ \E t \in Readers : ThreadWidenFill(t)
    \/ \E t \in Readers : ThreadWidenCopy(t)
    \/ \E t \in Readers : ThreadMonoFill(t)
    \/ \E t \in Readers : ThreadMonoCopy(t)
    \/ \E t \in Readers : ThreadReturn(t)

SpecThreads == InitThreads /\ [][NextThreads]_vars

(***************************************************************************)
(* SpecPure: the arithmetic of the reader applied to drawn inputs.  Reader *)
(* 1 carries the members the functions read; last records the call.  A    *)
(* conversion is applied once to each input drawn; nibbles are decoded in  *)
(* a row.                                                                  *)
(***************************************************************************)
\* sample rates, among them the common ones whose frames_per_ms is not an
\* exact float
ConvRates == { 1, 7, 1000, 8000, 11025, 22050, 44100, 48000 }

\* readers of every valid uncompressed format
ConvReaders ==
    { [ NewReader EXCEPT !.SampleRate = r, !.Channels = c, !.BytesPerSample = b,
                         !.Conversion = IF b = 1 THEN CONV_8BIT_TO_16BIT
                                        ELSE CONV_16LSB_TO_16SYS ] :
        r \in ConvRates, c \in 1..2, b \in 1..2 }

\* the coefficient table of the MS-ADPCM standard
AdpcmCoefs == << <<256, 0>>, <<512, -256>>, <<0, 0>>, <<192, 64>>, <<240, 0>>,
                 <<460, -208>>, <<392, -232>> >>

\* a mono stream in the middle of a block, for every predictor of the
\* table, small and large deltas (21846 * 768 / 256 is above 65535) and
\* seed samples up to both ends of the
\* 16-bit range
NibbleReaders ==
    { [ NewReader EXCEPT
          !.fmt.wFormatTag = FMT_ADPCM, !.fmt.wChannels = 1,
          !.adpcm.wNumCoef = Len(AdpcmCoefs), !.adpcm.aCoefHeld = TRUE,
          !.adpcm.aCoef = [ k \in 1..Len(AdpcmCoefs) |->
                              [ iCoef1 |-> AdpcmCoefs[k][1], iCoef2 |-> AdpcmCoefs[k][2] ] ],
          !.adpcm.blockheadersHeld = TRUE,
          !.adpcm.blockheaders = << [ bPredictor |-> p, iDelta |-> d, iSamp |-> << s0, s1 >> ] >> ] :
        p \in 0..(Len(AdpcmCoefs) - 1), d \in { 16, 300, 21846 },
        s0 \in { -32768, -3, 0, 32767 }, s1 \in { -32768, 0, 7, 32767 } }

PureReaders == ConvReaders \cup NibbleReaders

\* the positions converted: the first milliseconds at every rate, and, at
\* the rates whose frames per millisecond are a whole number, positions
\* around 2^24 and 2^25 ms, where (float) ms has to round
ConvMs(s) ==
    (0..MaxConvMs) \cup
    (IF s.SampleRate \in { 1000, 8000 }
     THEN { 16777215, 16777216, 16777217, 33554433, 33554435 } ELSE {})

InitPure ==
    /\ \E r \in PureReaders : st = [ i \in Readers |-> r ]
    /\ alive = [ i \in Readers |-> i = 1 ]
    /\ tmpbuf = NoTmpbuf
    /\ last = NoCall
    /\ fault = "none"
    /\ atStart = [ i \in Readers |-> FALSE ]
    /\ thr = [ t \in Readers |-> IdleThread ]
    /\ calls = 0
    /\ player = NewPlayer

\* ConvertBytePosToMs( ConvertMsToBytePos( ms ) ) with the reader's format
DoConvert(ms) ==
    /\ last = NoCall
    /\ st[1].SampleRate > 0 /\ st[1].BytesPerSample * st[1].Channels > 0
    /\ last' = [ inst |-> 1, op |-> "Convert", arg |-> ms,
                 ret |-> ConvertBytePosToMs(
                            st[1], st[1].BytesPerSample, st[1].Channels,
                            ConvertMsToBytePos(st[1], st[1].BytesPerSample,
                                               st[1].Channels, ms)),
                 buf |-> << >> ]
    /\ UNCHANGED << player, st, alive, tmpbuf, fault, atStart, thr, calls >>

\* one nibble of channel 0 decoded as decode_adpcm_sample_frame does
DoNibble(nib) ==
    /\ st[1].adpcm.blockheadersHeld /\ calls < MaxNibbles
    /\ st' = [ st EXCEPT ![1].adpcm.blockheaders[1] =
                  do_adpcm_nibble(nib, st[1].adpcm.blockheaders[1],
                                  lPredSamp(st[1], st[1].adpcm.blockheaders[1])) ]
    /\ last' = [ inst |-> 1, op |-> "Nibble", arg |-> nib,
                 ret |-> st'[1].adpcm.blockheaders[1].iSamp[1],
                 \* the samples of the block so far: the seeds, oldest first,
                 \* and the samples decoded
                 buf |-> (IF last.op = "Nibble" THEN last.buf
                          ELSE << st[1].adpcm.blockheaders[1].iSamp[2],
                                  st[1].adpcm.blockheaders[1].iSamp[1] >>)
                            \o << st'[1].adpcm.blockheaders[1].iSamp[1] >> ]
    /\ calls' = calls + 1
    /\ UNCHANGED << player, alive, tmpbuf, fault, atStart, thr >>

\* the widening step of Read on a buffer that holds the one byte b
DoWiden(b) ==
    /\ last = NoCall
    /\ st[1].Conversion = CONV_8BIT_TO_16BIT
    /\ LET c == ConvertWide(st[1], [ tb |-> TmpRealloc(NoTmpbuf, 2), buf |-> << b >>,
                                     ret |-> 1 ])
       IN  last' = [ inst |-> 1, op |-> "Widen", arg |-> b, ret |-> S16At(c.buf, 0),
                     buf |-> c.buf ]
    /\ UNCHANGED << player, st, alive, tmpbuf, fault, atStart, thr, calls >>

NextPure ==
    \/ \E ms \in ConvMs(st[1]) : DoConvert(ms)
    \/ \E b \in 0..255 : DoWiden(b)
    \/ \E nib \in 0..15 : DoNibble(nib)

SpecPure == InitPure /\ [][NextPure]_vars

(***************************************************************************)
(* SpecPlayer: one Player object, constructed empty; the screen loads a    *)
(* chart into it and then calls Update once per frame and HandlePlayerStep *)
(* once per key press, in any order.                                       *)
(***************************************************************************)
\* the charts that are loaded: a row with a note on every track; notes on
\* one track only; a note per track on different rows
TapCharts ==
    { [ t \in Tracks |-> [ r \in Rows |-> IF r = 1 THEN "1" ELSE "0" ] ],
      [ t \in Tracks |-> [ r \in Rows |-> IF t = 0 /\ r \in { 0, 2 } THEN "1" ELSE "0" ] ],
      [ t \in Tracks |-> [ r \in Rows |-> IF r = t + 1 THEN "1" ELSE "0" ] ] }
HoldCharts ==
    { << >>,
      << [ m_iTrack |-> 0, m_iStartIndex |-> 0, m_iEndIndex |-> 2 ] >>,
      << [ m_iTrack |-> 1, m_iStartIndex |-> 1, m_iEndIndex |-> 2 ],
         [ m_iTrack |-> 0, m_iStartIndex |-> 0, m_iEndIndex |-> 1 ] >> }
Charts == { [ taps |-> t, holds |-> h ] : t \in TapCharts, h \in HoldCharts }

\* the song beats of the calls, in rows, and the step windows (fMaxBeatDiff)
SongBeats == 0..MaxRows
StepWindows == { 1, 2 }

PlayerCall(op, arg) == [ inst |-> 0, op |-> op, arg |-> arg, ret |-> 0, buf |-> << >> ]

DoLoad(notes) ==
    /\ calls < MaxCalls
    /\ ~player.loaded
    /\ player' = LoadPlayer(player, notes)
    /\ last' = PlayerCall("Load", 0)
    /\ calls' = calls + 1
    /\ UNCHANGED << st, alive, tmpbuf, fault, atStart, thr >>

\* last.arg is the beat the call worked with: the one the call before saved
DoUpdate(fDeltaTime, fSongBeat, fMaxBeatDifference, down) ==
    /\ calls < MaxCalls
    /\ player' = PlayerUpdate(player, fDeltaTime, fSongBeat, fMaxBeatDifference, down)
    /\ last' = PlayerCall("Update", player.m_fSongBeat)
    /\ calls' = calls + 1
    /\ UNCHANGED << st, alive, tmpbuf, fault, atStart, thr >>

DoStep(fSongBeat, col, fMaxBeatDiff) ==
    /\ calls < MaxCalls
    /\ player' = HandlePlayerStep(player, fSongBeat, col, fMaxBeatDiff)
    /\ last' = PlayerCall("Step", col)
    /\ calls' = calls + 1
    /\ UNCHANGED << st, alive, tmpbuf, fault, atStart, thr >>

NextPlayer ==
    \/ \E notes \in Charts : DoLoad(notes)
    \/ \E fDeltaTime \in 0..LifeFull, fSongBeat \in SongBeats, w \in StepWindows,
          down \in [ Tracks -> BOOLEAN ] : DoUpdate(fDeltaTime, fSongBeat, w, down)
    \/ \E fSongBeat \in SongBeats, col \in Tracks, w \in StepWindows :
          DoStep(fSongBeat, col, w)

SpecPlayer == Init /\ [][NextPlayer]_vars

(***************************************************************************)
(* What the files hold, read off their bytes: the canonical header has the *)
(* fmt chunk first, its fields at fixed offsets.                           *)
(***************************************************************************)
FileU16(f, off) ==
    IF FileLen(f) >= off + 2 THEN LEValue(SubSeq(FileBytes(f), off + 1, off + 2)) ELSE -1
FileU32(f, off) ==
    IF FileLen(f) >= off + 4 THEN LEValue32(SubSeq(FileBytes(f), off + 1, off + 4)) ELSE -1

HasMagic(f) == FileU32(f, 0) = riffID /\ FileU32(f, 8) = waveID
HasFmt(f) == HasMagic(f) /\ FileU32(f, 12) = fmtID /\ FileLen(f) >= 36
FileTag(f) == FileU16(f, 20)
FileChannels(f) == FileU16(f, 22)
FileBits(f) == FileU16(f, 34)
SupportedTag(f) == FileTag(f) \in { FMT_NORMAL, FMT_ADPCM }
LegalFormat(f) ==
    /\ FileChannels(f) \in { 1, 2 }
    /\ << FileTag(f), FileBits(f) >> \in { << FMT_NORMAL, 8 >>, << FMT_NORMAL, 16 >>,
                                            << FMT_ADPCM, 4 >> }

\* the length of the stream's data in milliseconds
DataFrames(s) ==
    IF s.fmt.wFormatTag = FMT_ADPCM
      THEN ((FileLen(s.filename) - s.fmt.data_starting_offset + s.fmt.wBlockAlign - 1)
               \div s.fmt.wBlockAlign) * s.adpcm.wSamplesPerBlock
      ELSE (FileLen(s.filename) - s.fmt.data_starting_offset)
               \div (s.BytesPerSample * s.Channels)
DataEndMs(s) == (DataFrames(s) * 1000) \div s.SampleRate

\* what a Read of len bytes on reader state s would come back with
ReadOutcome(r) == << r.fault, r.ret, r.buf >>
ReadResult(s, tb, len) == ReadOutcome(Read(s, tb, len))
NothingRead == << "none", 0, << >> >>

\* this step is a call of GetLength that returned
GetLengthReturned == last'.op = "GetLength" /\ calls' = calls + 1 /\ fault' = "none"

\* the members Read, SetPosition and GetLength of an open stream go by
Relevant(s) ==
    [ s EXCEPT !.error = "",
               !.adpcm = IF s.fmt.wFormatTag = FMT_ADPCM THEN s.adpcm ELSE ZeroAdpcm ]

(***************************************************************************)
(* Properties.                                                             *)
(***************************************************************************)

\* C1: a GetLength call changes neither the return value nor the bytes of
\* the Read that follows it on the same stream.
C1_GetLengthKeepsRead ==
    [][ GetLengthReturned =>
          \A len \in ReadLens(st[last'.inst]) :
             ReadResult(st'[last'.inst], tmpbuf', len)
                = ReadResult(st[last'.inst], tmpbuf, len) ]_vars

\* C2: when GetLength returns, the file cursor is where it was before the
\* call and the live ADPCM channel state (block headers,
\* samples_left_in_block, nibble parity, nibble byte) is unchanged.
C2_GetLengthRestoresState ==
    [][ GetLengthReturned =>
          /\ st'[last'.inst].pos = st[last'.inst].pos
          /\ st'[last'.inst].adpcm = st[last'.inst].adpcm ]_vars

\* C3: a copy and its original, both at position 0 of the same file, read
\* the same bytes, whatever was called on the original before or after the
\* copy was made.
C3_CopyReadsLikeOriginal ==
    ( /\ fault = "none" /\ alive[2]
      /\ st[1].opened /\ st[2].opened /\ st[1].filename = st[2].filename
      /\ atStart[1] /\ atStart[2] )
    => \A len \in ReadLens(st[1]) :
          ReadResult(st[1], tmpbuf, len) = ReadResult(st[2], tmpbuf, len)

\* C4: a Read that ran interleaved with the other thread's Read on the
\* other instance delivers the return value and the bytes it delivers when
\* it runs alone.
C4_ThreadsReadAsAlone ==
    \A t \in Readers :
       thr[t].pc = "done" =>
          thr[t].ret = thr[t].aloneRet /\ thr[t].buf = thr[t].aloneBuf

\* C5: Open of a file without the RIFF/WAVE magic returns NoMatch; Open of
\* a file with the magic, a supported compression tag and 24 bits per
\* sample returns MatchButFailed.
C5_MagicAndSampleSize ==
    last.op = "Open" =>
       /\ ~HasMagic(last.arg) => fault = "none" /\ last.ret = OPEN_NO_MATCH
       /\ (HasFmt(last.arg) /\ SupportedTag(last.arg) /\ FileBits(last.arg) = 24)
             => fault = "none" /\ last.ret = OPEN_MATCH_BUT_FAIL

\* C6 (as the specification states it): Open of a file with the magic and
\* a compression tag other than 1 and 2 returns MatchButFailed.
C6_UnknownTagFailsHard ==
    (last.op = "Open" /\ HasFmt(last.arg) /\ ~SupportedTag(last.arg))
       => fault = "none" /\ last.ret = OPEN_MATCH_BUT_FAIL

\* C6 (amended): Open of a file with the magic and a compression tag other
\* than 1 and 2 returns NoMatch, the result a wrong magic gives, so that
\* the caller goes on to try other decoders; when the low byte of the
\* channel count is above 2 the assertion before the tag test stops the
\* process instead.
C6_UnknownTagIsNoMatch ==
    (last.op = "Open" /\ HasFmt(last.arg) /\ ~SupportedTag(last.arg)) =>
       IF FileChannels(last.arg) % 256 <= 2
         THEN fault = "none" /\ last.ret = OPEN_NO_MATCH
         ELSE fault = "abort"

\* an Open of such a file has returned
C6_UnknownTagOpened ==
    /\ last.op = "Open" /\ HasFmt(last.arg) /\ ~SupportedTag(last.arg)
    /\ fault = "none" /\ last.ret = OPEN_NO_MATCH

\* C7: Open returns Ok only for one or two channels of 8-bit PCM, 16-bit
\* PCM or 4-bit ADPCM; for every other channel count and every other
\* combination of a supported compression tag and a sample size it returns
\* MatchButFailed.
C7_OnlyLegalFormatsOpen ==
    (last.op = "Open" /\ HasFmt(last.arg)) =>
       /\ (fault = "none" /\ last.ret = OPEN_OK) => LegalFormat(last.arg)
       /\ (SupportedTag(last.arg) /\ ~LegalFormat(last.arg))
             => fault = "none" /\ last.ret = OPEN_MATCH_BUT_FAIL

\* C8: after an Open that returned NoMatch or MatchButFailed the reader
\* holds no file and no ADPCM table, a Read delivers no byte (if it returns
\* at all it returns 0) and Read and SetPosition leave the reader as it is;
\* after an Open that returned Ok, whatever was opened or failed before,
\* every member the stream's operations go by has the value it has in a new
\* reader that opened that file.
C8_FailedOpenLeavesNothing ==
    (last.op = "Open" /\ fault = "none") =>
       IF last.ret # OPEN_OK
         THEN /\ ~st[1].rw /\ ~st[1].opened
              /\ ~st[1].adpcm.aCoefHeld /\ st[1].adpcm.aCoef = << >>
              /\ ~st[1].adpcm.blockheadersHeld /\ st[1].adpcm.blockheaders = << >>
              /\ \A len \in 1..(8 * MaxReadUnits) :
                    /\ Read(st[1], tmpbuf, len).buf = << >>
                    /\ Read(st[1], tmpbuf, len).fault = "none"
                          => Read(st[1], tmpbuf, len).ret = 0
                    /\ Read(st[1], tmpbuf, len).s = st[1]
              /\ \A ms \in SeekTargets : SetPosition(st[1], ms).s = st[1]
         ELSE Relevant(st[1]) = Relevant(OpenTable[last.arg].s)

\* a file was opened on a reader whose Open before failed
C8_OpenedAfterFailure ==
    /\ last.op = "Open" /\ fault = "none" /\ last.ret = OPEN_OK
    /\ st[1].error = "Unsupported sample size"

\* C9: after a SetPosition past the end of the data, Read returns 0 and
\* reports no error, whatever the stream's state was before.
C9_ReadAfterSeekPastEnd ==
    (last.op = "SetPosition" /\ fault = "none" /\ last.arg > DataEndMs(st[last.inst]))
       => \A len \in ReadLens(st[last.inst]) :
             ReadResult(st[last.inst], tmpbuf, len) = NothingRead

\* C10: once a Read came back short because the data ran out, a further
\* Read returns 0 and changes neither the cursor nor the channel state.
C10_ReadAtEndIsNoOp ==
    (last.op = "Read" /\ fault = "none" /\ last.ret < last.arg)
       => \A len \in ReadLens(st[last.inst]) :
             /\ ReadResult(st[last.inst], tmpbuf, len) = NothingRead
             /\ Read(st[last.inst], tmpbuf, len).s.pos = st[last.inst].pos
             /\ Read(st[last.inst], tmpbuf, len).s.adpcm = st[last.inst].adpcm

\* the size the data chunk declares, and the position ms read off the
\* format: floor(ms * sample_rate / 1000) frames
DeclaredDataLen(s) == FileU32(s.filename, s.fmt.data_starting_offset - 4)
FrameSize(s) == s.BytesPerSample * s.Channels
MsToByteOffset(s, ms) == ((ms * s.SampleRate) \div 1000) * FrameSize(s)
InsideData(s, ms) == MsToByteOffset(s, ms) < DeclaredDataLen(s)

\* C11: on an open uncompressed stream, SetPosition(ms) with ms inside the
\* data returns ms, leaves the cursor at data_starting_offset +
\* floor(ms * sample_rate / 1000) * bytes_per_sample * channels and leaves
\* the stream open.
C11_SeekNormalSucceeds ==
    ( /\ last.op = "SetPosition" /\ fault = "none"
      /\ st[last.inst].fmt.wFormatTag = FMT_NORMAL
      /\ InsideData(st[last.inst], last.arg) )
    => /\ last.ret = last.arg
       /\ st[last.inst].pos
             = st[last.inst].fmt.data_starting_offset + MsToByteOffset(st[last.inst], last.arg)
       /\ st[last.inst].opened /\ st[last.inst].rw

\* C12: on an open ADPCM stream, SetPosition(ms) with ms inside the data
\* returns ms and leaves the cursor and the channel state of a fresh stream
\* that has decoded ms_to_byte_offset(ms) bytes from position 0.
C12_SeekAdpcmLikeDecode ==
    ( /\ last.op = "SetPosition" /\ fault = "none"
      /\ st[last.inst].fmt.wFormatTag = FMT_ADPCM
      /\ FrameSize(st[last.inst]) > 0
      /\ last.arg < DataEndMs(st[last.inst]) )
    => /\ last.ret = last.arg
       /\ st[last.inst].pos
             = read_sample_fmt_adpcm(OpenTable[st[last.inst].filename].s,
                                     MsToByteOffset(st[last.inst], last.arg)).s.pos
       /\ st[last.inst].adpcm
             = read_sample_fmt_adpcm(OpenTable[st[last.inst].filename].s,
                                     MsToByteOffset(st[last.inst], last.arg)).s.adpcm

C13_RoundTripAbove ==
    last.op = "Convert" /\ last.ret > last.arg


\* the conversion multipliers of a file's format: widening 2 for 8-bit
\* samples, duplication 2 for one channel
ConversionMultiplier(f) ==
    (IF FileBits(f) = 8 THEN 2 ELSE 1) * (IF FileChannels(f) = 1 THEN 2 ELSE 1)

\* C14: a Read that returns normally returns the number of raw bytes it
\* took from the stream (for uncompressed data the advance of the cursor,
\* for ADPCM the bytes decoded) times the product of the conversion
\* multipliers of the format, and delivers that many bytes: 4N for mono
\* 8-bit, N for stereo 16-bit.
C14_ReadSizeFollowsConversions ==
    [][ \A i \in Readers :
          (/\ calls' = calls + 1 /\ last'.op = "Read" /\ last'.inst = i
           /\ fault' = "none" /\ ReadRaw(st[i], last'.arg).ret >= 0)
          => /\ last'.ret = ReadRaw(st[i], last'.arg).ret * ConversionMultiplier(st[i].filename)
             /\ Len(last'.buf) = last'.ret
             /\ st[i].fmt.wFormatTag = FMT_NORMAL
                  => ReadRaw(st[i], last'.arg).ret = st'[i].pos - st[i].pos ]_vars

\* a Read took the 4 bytes of a mono 8-bit stream and returned 16
C14_MonoEightBitRead ==
    /\ last.op = "Read" /\ fault = "none"
    /\ FileBits(st[last.inst].filename) = 8 /\ FileChannels(st[last.inst].filename) = 1
    /\ st[last.inst].pos = FileLen(st[last.inst].filename)
    /\ last.ret = 16 /\ Len(last.buf) = 16


\* the file whose blocks are those of f, complete
CompleteFile(f) == IF f = "adpcm_trunc.wav" THEN "adpcm.wav" ELSE f

\* what a decode of the complete blocks delivers from the start
CompleteDecode(f) ==
    Read(OpenTable[CompleteFile(f)].s, NoTmpbuf, 4 * FileLen(CompleteFile(f))).buf

IsPrefix(a, b) == Len(a) <= Len(b) /\ SubSeq(b, 1, Len(a)) = a

\* C15: on an ADPCM stream read from its start, the bytes of a Read and of
\* the Read that follows it are, in order, the frames a complete decode
\* produces at those positions, also when a read of a block header or of a
\* nibble byte came up short in one of them, and a Read that came back
\* short leaves an error set.
C15_ShortReadKeepsDecodedFrames ==
    \A i \in Readers :
       (alive[i] /\ atStart[i] /\ fault = "none" /\ st[i].opened
          /\ st[i].fmt.wFormatTag = FMT_ADPCM)
       => \A len1, len2 \in ReadLens(st[i]) :
             /\ IsPrefix(Read(st[i], tmpbuf, len1).buf
                           \o Read(Read(st[i], tmpbuf, len1).s,
                                   Read(st[i], tmpbuf, len1).tb, len2).buf,
                         CompleteDecode(st[i].filename))
             /\ Read(Read(st[i], tmpbuf, len1).s, Read(st[i], tmpbuf, len1).tb, len2).ret < len2
                  => Read(Read(st[i], tmpbuf, len1).s,
                          Read(st[i], tmpbuf, len1).tb, len2).s.error # ""


\* the data of an ADPCM stream is B >= 1 whole blocks
WholeBlocks(s) ==
    /\ FileLen(s.filename) > s.fmt.data_starting_offset
    /\ (FileLen(s.filename) - s.fmt.data_starting_offset) % s.fmt.wBlockAlign = 0

\* the duration of the frames a decode from the start delivers (16-bit
\* stereo frames of 4 bytes)
DecodedMs(s) == ((Len(CompleteDecode(s.filename)) \div 4) * 1000) \div s.SampleRate

\* C16: on an open ADPCM stream whose data is B >= 1 whole blocks,
\* GetLength returns the duration of the frames those blocks decode to.
C16_AdpcmLengthIsDecodedDuration ==
    ( /\ last.op = "GetLength" /\ fault = "none"
      /\ st[last.inst].opened /\ st[last.inst].fmt.wFormatTag = FMT_ADPCM
      /\ WholeBlocks(st[last.inst]) )
    => last.ret = DecodedMs(st[last.inst])


\* byte_offset_to_ms: the whole frames in n bytes, in whole milliseconds
ByteOffsetToMs(s, n) == ((n \div FrameSize(s)) * 1000) \div s.SampleRate

\* the duration of the frames Read delivers from position 0 up to the Read
\* that returns 0 (16-bit stereo frames of 4 bytes)
DeliveredMs(s) ==
    ((Len(Read(OpenTable[s.filename].s, NoTmpbuf, 4 * FileLen(s.filename)).buf) \div 4) * 1000)
        \div s.SampleRate

\* C17: on an open uncompressed stream GetLength returns the duration of
\* the declared byte length of the data chunk, whatever follows the data
\* chunk in the file, and that is the duration of the bytes Read delivers
\* from position 0.
C17_NormalLengthIsDeclaredLength ==
    ( /\ last.op = "GetLength" /\ fault = "none"
      /\ st[last.inst].opened /\ st[last.inst].fmt.wFormatTag = FMT_NORMAL )
    => /\ last.ret = ByteOffsetToMs(st[last.inst], DeclaredDataLen(st[last.inst]))
       /\ last.ret = DeliveredMs(st[last.inst])


\* the chunks of a container from offset pos on, by the container
\* convention: a chunk of odd size is followed by a pad byte.  The offset
\* of the contents of the first chunk called id, or -1
RECURSIVE ChunkContents(_, _, _)
ChunkContents(f, id, pos) ==
    IF pos + 8 > FileLen(f) \/ FileU32(f, pos + 4) < 0 THEN -1
    ELSE IF FileU32(f, pos) = id THEN pos + 8
    ELSE ChunkContents(f, id, pos + 8 + FileU32(f, pos + 4) + (FileU32(f, pos + 4) % 2))

\* the first chunk is a format chunk of a legal format and a data chunk
\* follows it somewhere
HasData(f) == HasFmt(f) /\ LegalFormat(f) /\ ChunkContents(f, dataID, 12) >= 0

\* a stream on file f with the cursor at pos
ScanFrom(f, pos) == [ NewReader EXCEPT !.filename = f, !.rw = TRUE, !.pos = pos ]

\* C18: Open of a file with a legal format and a data chunk finds the data
\* chunk at its true offset, the chunks before it skipped by their declared
\* size padded to an even boundary; the scan for a chunk never leaves the
\* cursor before the place it started from.
C18_DataChunkAtTrueOffset ==
    /\ (last.op = "Open" /\ HasData(last.arg))
          => /\ fault = "none" /\ last.ret = OPEN_OK
             /\ st[last.inst].fmt.data_starting_offset = ChunkContents(last.arg, dataID, 12)
    /\ \A f \in FileNames, pos \in { 12, 36 } :
          find_chunk(ScanFrom(f, pos), dataID).s.pos >= pos


\* walking the chunk headers from offset pos up to the chunk called id,
\* that chunk included: a header crosses the end of the file, or declares
\* a size that is negative or reaches past the end of the file
RECURSIVE BadChunkBefore(_, _, _)
BadChunkBefore(f, id, pos) ==
    IF pos + 8 > FileLen(f) THEN TRUE
    ELSE IF FileU32(f, pos + 4) < 0 \/ FileU32(f, pos + 4) > FileLen(f) - pos - 8 THEN TRUE
    ELSE IF FileU32(f, pos) = id THEN FALSE
    ELSE BadChunkBefore(f, id, pos + 8 + FileU32(f, pos + 4) + (FileU32(f, pos + 4) % 2))

\* C19: Open of a WAVE file of a legal format fails with
\* OPEN_MATCH_BUT_FAIL when a chunk header up to the data chunk, the data
\* chunk's included, crosses the end of the file or declares a size that is
\* negative or reaches past the end of the file.
C19_BadChunkSizeFailsOpen ==
    (last.op = "Open" /\ HasFmt(last.arg) /\ LegalFormat(last.arg)
        /\ BadChunkBefore(last.arg, dataID, 12))
    => fault = "none" /\ last.ret = OPEN_MATCH_BUT_FAIL


\* integer division as C has it: the quotient cut towards zero
TruncDiv(a, b) == IF a >= 0 THEN a \div b ELSE 0 - ((0 - a) \div b)

\* the signed value of a nibble
SignedNibble(nib) == IF nib < 8 THEN nib ELSE nib - 16

Clamp16(v) == IF v < -32768 THEN -32768 ELSE IF v > 32767 THEN 32767 ELSE v

\* the sample the decode step has to produce from header h with nibble nib
\* and the coefficient pair c
NibbleSample(h, c, nib) ==
    Clamp16(TruncDiv(h.iSamp[1] * c[1] + h.iSamp[2] * c[2], 256) + h.iDelta * SignedNibble(nib))

\* C20: a nibble decode step makes the newest sample
\* clamp((newest * coef1 + previous * coef2) / 256 + delta * s, -32768, 32767),
\* the division cutting towards zero and s the signed value of the nibble,
\* and makes the previous sample the former newest one; the predictor
\* index stays.  (With predictor 0, delta 16 and seeds (0, 0), nibbles of
\* zero decode to zero.)
C20_NibbleStep ==
    [][ (last'.op = "Nibble" /\ calls' = calls + 1) =>
          /\ st'[1].adpcm.blockheaders[1].iSamp[1] =
                NibbleSample(st[1].adpcm.blockheaders[1],
                             AdpcmCoefs[st[1].adpcm.blockheaders[1].bPredictor + 1], last'.arg)
          /\ st'[1].adpcm.blockheaders[1].iSamp[2] = st[1].adpcm.blockheaders[1].iSamp[1]
          /\ st'[1].adpcm.blockheaders[1].bPredictor = st[1].adpcm.blockheaders[1].bPredictor
          /\ ( /\ st[1].adpcm.blockheaders[1] = [ bPredictor |-> 0, iDelta |-> 16, iSamp |-> << 0, 0 >> ]
               /\ last'.arg = 0 )
               => st'[1].adpcm.blockheaders[1] = st[1].adpcm.blockheaders[1] ]_vars

\* from predictor 0, delta 16 and seeds (0, 0), two nibbles of zero were
\* decoded to zero
C20_ZeroBlockDecoded ==
    /\ last.op = "Nibble" /\ last.arg = 0 /\ last.buf = << 0, 0, 0, 0 >>
    /\ st[1].adpcm.blockheaders[1] = [ bPredictor |-> 0, iDelta |-> 16, iSamp |-> << 0, 0 >> ]


\* C21: after a nibble decode step the channel's stored delta is
\* max(delta * AdaptionTable[nibble] / 256, 16), and so never below 16,
\* also when the scaled value does not fit the 16-bit field.
C21_DeltaAdapted ==
    [][ (last'.op = "Nibble" /\ calls' = calls + 1) =>
          /\ st'[1].adpcm.blockheaders[1].iDelta =
                Max(TruncDiv(st[1].adpcm.blockheaders[1].iDelta * AdaptionTable[last'.arg + 1], 256),
                    16)
          /\ st'[1].adpcm.blockheaders[1].iDelta >= 16 ]_vars


\* the state of a stream on file f that was opened and read n frames
\* (frames of 4 delivered bytes)
AfterFrames(f, n) == Read(OpenTable[f].s, NoTmpbuf, 4 * n).s

\* the frames the blocks of the data of an ADPCM stream hold
BlockFrames(s) ==
    IF s.fmt.wBlockAlign = 0 THEN 0
    ELSE ((FileLen(s.filename) - s.fmt.data_starting_offset) \div s.fmt.wBlockAlign)
            * s.adpcm.wSamplesPerBlock

\* after n frames read from the start: the frames left in the block, and
\* the cursor, which is behind the block header and the nibble bytes of the
\* (n mod samples_per_block) - 1 frames decoded from it, or at the end of
\* the block when the block was delivered whole
LeftAfter(s, n) ==
    IF n % s.adpcm.wSamplesPerBlock = 0 THEN 0
    ELSE s.adpcm.wSamplesPerBlock - (n % s.adpcm.wSamplesPerBlock)
PosAfter(s, n) ==
    s.fmt.data_starting_offset
      + IF n % s.adpcm.wSamplesPerBlock = 0
          THEN (n \div s.adpcm.wSamplesPerBlock) * s.fmt.wBlockAlign
          ELSE (n \div s.adpcm.wSamplesPerBlock) * s.fmt.wBlockAlign
                 + 7 * s.fmt.wChannels
                 + (s.fmt.wChannels * ((n % s.adpcm.wSamplesPerBlock) - 1) + 1) \div 2

\* the bytes of frame number a, one of the first two of its block, as the
\* block header in the file gives them: the older seed iSamp[1] first
SeedFrame(s, a) ==
    LET off == s.fmt.data_starting_offset
                 + (a \div s.adpcm.wSamplesPerBlock) * s.fmt.wBlockAlign
                 + (IF a % s.adpcm.wSamplesPerBlock = 0 THEN 5 ELSE 3) * s.fmt.wChannels
    IN  IF s.fmt.wChannels = 1
          THEN SubSeq(FileBytes(s.filename), off + 1, off + 2)
                 \o SubSeq(FileBytes(s.filename), off + 1, off + 2)
          ELSE SubSeq(FileBytes(s.filename), off + 1, off + 4)

\* C22: a Read on an ADPCM stream of whole blocks that n frames were read
\* from so far delivers the frames that follow: samples_per_block frames
\* for each block, the first two of them the seed samples of the block
\* header; samples_left_in_block counts the frames left of the block, no
\* nibble byte is read before the second seed was delivered,
\* samples_per_block - 2 nibbles per channel are read from a block, and the
\* next block header is read only after the last frame of the block.
C22_FramesPerBlock ==
    [][ \A i \in Readers : \A n \in 0..BlockFrames(st[i]) :
          ( /\ calls' = calls + 1 /\ last'.op = "Read" /\ last'.inst = i /\ fault' = "none"
            /\ st[i].opened /\ st[i].fmt.wFormatTag = FMT_ADPCM
            /\ st[i].adpcm.wSamplesPerBlock > 0 /\ WholeBlocks(st[i])
            /\ st[i] = AfterFrames(st[i].filename, n) )
          => /\ Len(last'.buf) % 4 = 0 /\ n + Len(last'.buf) \div 4 <= BlockFrames(st[i])
             /\ st'[i].adpcm.samples_left_in_block
                   = LeftAfter(st[i], n + Len(last'.buf) \div 4)
             /\ st'[i].pos = PosAfter(st[i], n + Len(last'.buf) \div 4)
             /\ \A j \in 0..((Len(last'.buf) \div 4) - 1) :
                   (n + j) % st[i].adpcm.wSamplesPerBlock < 2
                     => SubSeq(last'.buf, 4 * j + 1, 4 * j + 4) = SeedFrame(st[i], n + j) ]_vars

\* a Read delivered the seed samples of the second block of adpcm.wav
C22_SecondBlockStarted ==
    /\ last.op = "Read" /\ fault = "none" /\ last.ret > 0
    /\ st[last.inst].filename = "adpcm.wav"
    /\ st[last.inst] = AfterFrames("adpcm.wav", 6)
    /\ SubSeq(last.buf, Len(last.buf) - 3, Len(last.buf)) = << 253, 255, 253, 255 >>


\* C23: the widening step of Read makes of the unsigned 8-bit sample b the
\* signed 16-bit sample (b - 128) * 256, for every b in 0..255, the input
\* buffer being an array of signed char.
C23_WidenedSample ==
    last.op = "Widen" =>
       /\ last.ret = (last.arg - 128) * 256
       /\ last.buf = << ((last.arg - 128) * 256) % 256,
                        (((last.arg - 128) * 256) % 65536) \div 256 >>

\* the byte 255, negative as a signed char, was widened
C23_WidenedHighByte == last.op = "Widen" /\ last.arg = 255 /\ last.ret = 32512


Judged(hns, result) == \E k \in 1..Len(hns.judgements) : hns.judgements[k] = result

\* C25: in Player::Update a hold note is given HNR_OK only while its life is
\* greater than 0: in the call that gives it HNR_OK its life was positive
\* and no HNR_NG judgement was made for it, a life of 0 always goes with the
\* result HNR_NG, and a note that has HNR_NG keeps it in every later call.
C25_OkOnlyWithLife ==
    [][ \A i \in 1..MaxHoldNotes :
          /\ ( /\ player'.m_HoldNoteScores[i].m_Result = HNR_OK
               /\ player.m_HoldNoteScores[i].m_Result # HNR_OK )
             => /\ player.m_HoldNoteScores[i].m_fLife > 0
                /\ ~Judged(player'.m_HoldNoteScores[i], HNR_NG)
          /\ player.m_HoldNoteScores[i].m_Result = HNR_NG
             => player'.m_HoldNoteScores[i].m_Result = HNR_NG
          /\ player'.m_HoldNoteScores[i].m_fLife >= 0
          /\ player'.m_HoldNoteScores[i].m_fLife = 0
             => player'.m_HoldNoteScores[i].m_Result = HNR_NG ]_vars

\* a hold note whose life ran out was given HNR_NG, and Update has since
\* run with a beat past the end of the note
C25_NgKeptPastEnd ==
    \E i \in 1..Len(player.m_HoldNotes) :
        /\ player.m_HoldNoteScores[i].m_Result = HNR_NG
        /\ player.m_HoldNoteScores[i].m_fLife = 0
        /\ player.m_HoldNoteScores[i].judgements = << HNR_NG >>
        /\ last.op = "Update"
        /\ last.arg > player.m_HoldNotes[i].m_iEndIndex


\* C26: CheckForCompleteRow scores a row (OnRowDestroyed) only in a step
\* after which no track holds an un-hit tap note in that row, and no row is
\* scored more than once.
C26_RowScoredWhenComplete ==
    [][ \A r \in Rows :
          /\ player'.scored[r] > player.scored[r]
             => \A t \in Tracks : player'.m_TapNotes[t][r] = "0"
          /\ player'.scored[r] <= 1 ]_vars


\* C27: a Read that returns has written no more than len bytes to buf and
\* returns no more than len, whatever the format of the stream.
C27_ReadWithinLen ==
    (last.op = "Read" /\ fault = "none")
        => (last.ret <= last.arg /\ Len(last.buf) <= last.arg)


\* C28: when an operation on an open stream has returned, the file cursor
\* is not before data_starting_offset, so a Read never takes bytes of the
\* container's headers for sample data.
C28_CursorInData ==
    \A i \in Readers :
        (alive[i] /\ st[i].opened /\ fault = "none")
            => st[i].pos >= st[i].fmt.data_starting_offset


\* C29: in every state of an open ADPCM stream that Read and SetPosition
\* calls lead to, samples_left_in_block is at least 0 and at most the
\* samples_per_block of the fmt chunk.
C29_SamplesLeftInRange ==
    \A i \in Readers :
        (alive[i] /\ st[i].opened /\ st[i].fmt.wFormatTag = FMT_ADPCM /\ fault = "none")
            => /\ 0 <= st[i].adpcm.samples_left_in_block
               /\ st[i].adpcm.samples_left_in_block <= st[i].adpcm.wSamplesPerBlock
==========================================================================
